---- MODULE Spec2Model ----
(***************************************************************************)
(* Notion -> Ecomail one-way synchronisation (sync.mjs).                   *)
(*                                                                         *)
(* The module models one run of main(): the enumeration of the Notion      *)
(* pages, the per-page loop, the calls made through fetchWithRetry and the *)
(* four counters of the summary.                                           *)
(*                                                                         *)
(* Conventions for JavaScript values:                                      *)
(*   - a value that may be null/undefined is a sequence of length <= 1:    *)
(*     None is null, Some(v) is v;                                         *)
(*   - a string that the code inspects character by character (an email)   *)
(*     is a sequence of one-character strings;                             *)
(*   - a status, which may be a number or a string, is a tagged record.    *)
(***************************************************************************)
EXTENDS Integers, Sequences, FiniteSets, TLC

\* ------------------------------------------------------------------------
\* Bounds of the model
\* ------------------------------------------------------------------------

\* largest number of pages the Notion query returns
MaxPages == 2

\* largest number of mutations sent for one contact over successive runs
MaxRuns == 3

\* ------------------------------------------------------------------------
\* JavaScript values
\* ------------------------------------------------------------------------

None == <<>>

Some(v) == <<v>>

\* JavaScript truthiness of a string-or-null value: null and "" are falsy
Truthy(o) == o # None /\ o[1] # ""

\* the idiom  x || null
OrNull(o) == IF Truthy(o) THEN o ELSE None

\* ------------------------------------------------------------------------
\* Program constants
\* ------------------------------------------------------------------------

SUBSCRIBED == 1

UNSUBSCRIBED == 2

HARD_BOUNCE == 4

SPAM_COMPLAINT == 5

UNCONFIRMED == 6

\* default value of fetchWithRetry's parameter maxRetries
maxRetries == 3

\* ------------------------------------------------------------------------
\* Status values: null | number | string
\* ------------------------------------------------------------------------

NullStatus == [t |-> "null", n |-> 0, s |-> ""]

Num(n) == [t |-> "number", n |-> n, s |-> ""]

Str(s) == [t |-> "string", n |-> 0, s |-> s]

\* the table STATUS_STRING_TO_CODE; 0 stands for "no entry" (undefined)
STATUS_STRING_TO_CODE(s) ==
  CASE s = "SUBSCRIBED"     -> 1
    [] s = "UNSUBSCRIBED"   -> 2
    [] s = "HARD_BOUNCE"    -> 4
    [] s = "SPAM_COMPLAINT" -> 5
    [] s = "UNCONFIRMED"    -> 6
    [] OTHER                -> 0

\* STATUS_STRING_TO_CODE is an object literal: a lookup of a name it does
\* not define goes on to Object.prototype, which defines these names
ObjectPrototype ==
  { "constructor", "toString", "toLocaleString", "valueOf", "hasOwnProperty",
    "isPrototypeOf", "propertyIsEnumerable", "__proto__" }

\* the member of Object.prototype of that name: a function (for "__proto__"
\* an object), which is truthy and neither a number nor a string
Inherited(s) == [t |-> "object", n |-> 0, s |-> s]

\* a normalisation that leaves the mnemonic strings as they are
normalizeEcomailStatus_Identity(status) ==
  IF status.t = "null" THEN Str("NOT_FOUND") ELSE status

\* status === null || status === undefined; typeof status === 'number';
\* typeof status === 'string': STATUS_STRING_TO_CODE[status] || status
normalizeEcomailStatus(status) ==
  IF status.t = "null" THEN Str("NOT_FOUND")
  ELSE IF status.t = "number" THEN status
  ELSE IF status.t = "string"
  THEN IF STATUS_STRING_TO_CODE(status.s) # 0
       THEN Num(STATUS_STRING_TO_CODE(status.s))
       ELSE IF status.s \in ObjectPrototype THEN Inherited(status.s)
       ELSE status
  ELSE status

\* ------------------------------------------------------------------------
\* Email validation
\* ------------------------------------------------------------------------

\* the class \s of the regular expression, on the model's alphabet
IsSpace(c) == c = " "

\* String.prototype.trim
RECURSIVE TrimLeft(_)
TrimLeft(s) ==
  IF s # <<>> /\ IsSpace(Head(s)) THEN TrimLeft(Tail(s)) ELSE s

RECURSIVE TrimRight(_)
TrimRight(s) ==
  IF s # <<>> /\ IsSpace(s[Len(s)])
  THEN TrimRight(SubSeq(s, 1, Len(s) - 1))
  ELSE s

trim(s) == TrimRight(TrimLeft(s))

\* the character class [^\s@]
Plain(c) == ~IsSpace(c) /\ c # "@"

\* /^[^\s@]+@[^\s@]+\.[^\s@]+$/ : i is the place of the "@" and j the place
\* of the "." that the pattern's literal matches
emailRegex(s) ==
  \E i \in 1..Len(s) : \E j \in 1..Len(s) :
    /\ 1 < i /\ i + 1 < j /\ j < Len(s)
    /\ s[i] = "@"
    /\ s[j] = "."
    /\ \A k \in 1..Len(s) : k # i => Plain(s[k])

\* a validation that forgets the top-level domain: /^[^\s@]+@[^\s@]+$/
isValidEmail_NoTld(email) ==
  IF email = None \/ email[1] = <<>> THEN FALSE
  ELSE LET s == trim(email[1])
       IN \E i \in 1..Len(s) :
            /\ 1 < i /\ i < Len(s)
            /\ s[i] = "@"
            /\ \A k \in 1..Len(s) : k # i => Plain(s[k])

isValidEmail(email) ==
  IF email = None \/ email[1] = <<>> THEN FALSE
  ELSE emailRegex(trim(email[1]))

\* ------------------------------------------------------------------------
\* Tags
\* ------------------------------------------------------------------------

\* the order of Array.prototype.sort on the model's tag names
CodeUnit(t) == CASE t = "a" -> 1 [] t = "b" -> 2 [] OTHER -> 3

RECURSIVE Insert(_, _)
Insert(x, s) ==
  IF s = <<>> THEN <<x>>
  ELSE IF CodeUnit(x) <= CodeUnit(Head(s)) THEN <<x>> \o s
  ELSE <<Head(s)>> \o Insert(x, Tail(s))

RECURSIVE Sort(_)
Sort(s) == IF s = <<>> THEN <<>> ELSE Insert(Head(s), Sort(Tail(s)))

\* ------------------------------------------------------------------------
\* Contacts
\* ------------------------------------------------------------------------

\* properties['Marketingovy status']: "missing" (no such property),
\* "other" (a property of another type), or a select whose option may be
\* null
extractSubscribeValue(field) ==
  IF field.kind = "missing" THEN None
  ELSE IF field.kind # "select" THEN None
  ELSE OrNull(field.name)

extractContactData(page) ==
  LET subscribeValue == extractSubscribeValue(page.marketing)
  IN [email        |-> IF page.email = None \/ page.email[1] = <<>>
                       THEN None ELSE page.email,
      name         |-> OrNull(page.name),
      surname      |-> OrNull(page.surname),
      company      |-> OrNull(page.company),
      tags         |-> page.tags,
      subscribe    |-> subscribeValue = Some("Ano"),
      subscribeRaw |-> subscribeValue]

\* a copy that is not sorted: [...list]
SortedCopy_Unsorted(list) == [sorted |-> list, list |-> list]

\* a sort of the list itself: list.sort()
SortedCopy_InPlace(list) == [sorted |-> Sort(list), list |-> Sort(list)]

\* [...list].sort(): the sorted copy, and the list as the statement leaves it
SortedCopy(list) == [sorted |-> Sort(list), list |-> list]

\* ecomailSubscriber?.tags || []
TagsOrEmpty(sub) == IF sub.tags = None THEN <<>> ELSE sub.tags[1]

\* a comparison that looks at the tags only when the page has some
needsEcomailUpdate_SkipsEmptyTags(notionContact, ecomailSubscriber) ==
  IF ecomailSubscriber = None THEN TRUE
  ELSE LET sub        == ecomailSubscriber[1]
           notionTags == Sort(notionContact.tags)
           ecomailTags == Sort(TagsOrEmpty(sub))
       IN IF Len(notionContact.tags) > 0 /\ notionTags # ecomailTags
          THEN TRUE
          ELSE IF Truthy(notionContact.name)
                  /\ notionContact.name # sub.name THEN TRUE
          ELSE IF Truthy(notionContact.surname)
                  /\ notionContact.surname # sub.surname THEN TRUE
          ELSE IF Truthy(notionContact.company)
                  /\ notionContact.company # sub.company THEN TRUE
          ELSE FALSE

\* a comparison that also looks at the text fields the page leaves empty
needsEcomailUpdate_ComparesAbsentFields(notionContact, ecomailSubscriber) ==
  IF ecomailSubscriber = None THEN TRUE
  ELSE LET sub        == ecomailSubscriber[1]
           notionTags == Sort(notionContact.tags)
           ecomailTags == Sort(TagsOrEmpty(sub))
       IN IF notionTags # ecomailTags THEN TRUE
          ELSE IF notionContact.name # sub.name THEN TRUE
          ELSE IF notionContact.surname # sub.surname THEN TRUE
          ELSE IF notionContact.company # sub.company THEN TRUE
          ELSE FALSE

needsEcomailUpdate(notionContact, ecomailSubscriber) ==
  IF ecomailSubscriber = None THEN TRUE
  ELSE LET sub        == ecomailSubscriber[1]
           notionTags == SortedCopy(notionContact.tags).sorted
           ecomailTags == SortedCopy(TagsOrEmpty(sub)).sorted
       IN IF Len(notionTags) # Len(ecomailTags) THEN TRUE
          ELSE IF \E i \in 1..Len(notionTags) : notionTags[i] # ecomailTags[i]
          THEN TRUE
          ELSE IF Truthy(notionContact.name)
                  /\ notionContact.name # sub.name THEN TRUE
          ELSE IF Truthy(notionContact.surname)
                  /\ notionContact.surname # sub.surname THEN TRUE
          ELSE IF Truthy(notionContact.company)
                  /\ notionContact.company # sub.company THEN TRUE
          ELSE FALSE

\* the two arguments as a call of needsEcomailUpdate leaves them: both
\* sorts run before the first comparison, and  ecomailSubscriber?.tags || []
\* is the subscriber's own list when it has one
needsEcomailUpdateLeaves(notionContact, ecomailSubscriber) ==
  IF ecomailSubscriber = None
  THEN [notionContact |-> notionContact,
        ecomailSubscriber |-> ecomailSubscriber]
  ELSE LET sub == ecomailSubscriber[1]
       IN [notionContact |->
             [notionContact EXCEPT !.tags = SortedCopy(@).list],
           ecomailSubscriber |->
             IF sub.tags = None THEN ecomailSubscriber
             ELSE Some([sub EXCEPT !.tags = Some(SortedCopy(@[1]).list)])]

\* ------------------------------------------------------------------------
\* Requests sent to Ecomail
\* ------------------------------------------------------------------------

\* a field of subscriber_data that is set only for a truthy value
IfTruthy(o) == IF Truthy(o) THEN o ELSE None

NoRequest ==
  [method |-> "", endpoint |-> "", email |-> None, status |-> 0,
   name |-> None, surname |-> None, company |-> None, tags |-> None,
   update_existing |-> FALSE, resubscribe |-> FALSE]

fetchEcomailSubscriberRequest(email) ==
  [NoRequest EXCEPT !.method = "GET", !.endpoint = "subscriber",
                    !.email = email]

\* an upsert that leaves the tags out when the contact has none
addToEcomailRequest_OmitsEmptyTags(contact) ==
  [method |-> "POST", endpoint |-> "subscribe",
   email |-> contact.email,
   status |-> SUBSCRIBED,
   name |-> IfTruthy(contact.name),
   surname |-> IfTruthy(contact.surname),
   company |-> IfTruthy(contact.company),
   tags |-> IF contact.tags = <<>> THEN None ELSE Some(contact.tags),
   update_existing |-> TRUE, resubscribe |-> TRUE]

addToEcomailRequest(contact) ==
  [method |-> "POST", endpoint |-> "subscribe", email |-> contact.email,
   status |-> SUBSCRIBED,
   name |-> IfTruthy(contact.name),
   surname |-> IfTruthy(contact.surname),
   company |-> IfTruthy(contact.company),
   tags |-> Some(contact.tags),
   update_existing |-> TRUE, resubscribe |-> TRUE]

unsubscribeFromEcomailRequest(email) ==
  [NoRequest EXCEPT !.method = "PUT", !.endpoint = "update-subscriber",
                    !.email = email, !.status = UNSUBSCRIBED]

\* an update that sends the subscribed status
updateUnsubscribedContactRequest_Resubscribes(contact) ==
  [method |-> "PUT", endpoint |-> "update-subscriber",
   email |-> contact.email,
   status |-> SUBSCRIBED,
   name |-> IfTruthy(contact.name),
   surname |-> IfTruthy(contact.surname),
   company |-> IfTruthy(contact.company),
   tags |-> Some(contact.tags),
   update_existing |-> FALSE, resubscribe |-> FALSE]

\* an update that leaves the tags out when the contact has none
updateUnsubscribedContactRequest_OmitsEmptyTags(contact) ==
  [method |-> "PUT", endpoint |-> "update-subscriber",
   email |-> contact.email,
   status |-> UNSUBSCRIBED,
   name |-> IfTruthy(contact.name),
   surname |-> IfTruthy(contact.surname),
   company |-> IfTruthy(contact.company),
   tags |-> IF contact.tags = <<>> THEN None ELSE Some(contact.tags),
   update_existing |-> FALSE, resubscribe |-> FALSE]

updateUnsubscribedContactRequest(contact) ==
  [method |-> "PUT", endpoint |-> "update-subscriber",
   email |-> contact.email,
   status |-> UNSUBSCRIBED,
   name |-> IfTruthy(contact.name),
   surname |-> IfTruthy(contact.surname),
   company |-> IfTruthy(contact.company),
   tags |-> Some(contact.tags),
   update_existing |-> FALSE, resubscribe |-> FALSE]

\* ------------------------------------------------------------------------
\* Results of a call
\* ------------------------------------------------------------------------

NoSubscriber ==
  [status |-> NullStatus, tags |-> None, name |-> None, surname |-> None,
   company |-> None]

\* what fetchWithRetry hands to its caller: a Response ("response"), a
\* thrown error ("error"), or the value of a function that ran off its end
\* ("undefined"); "none" while the call is running
NoResult ==
  [kind |-> "none", status |-> 0, retryAfter |-> None, json |-> "valid",
   error |-> FALSE, sub |-> NoSubscriber, err |-> ""]

Response(status, retryAfter, json, error, sub) ==
  [kind |-> "response", status |-> status, retryAfter |-> retryAfter,
   json |-> json, error |-> error, sub |-> sub, err |-> ""]

Thrown(err) == [NoResult EXCEPT !.kind = "error", !.err = err]

Undefined == [NoResult EXCEPT !.kind = "undefined"]

\* Response.ok
ok(response) == response.status >= 200 /\ response.status <= 299

\* a lookup that catches what fetchWithRetry throws and answers null
fetchEcomailSubscriberResult_NullOnThrow(result) ==
  IF result.kind = "error" THEN [threw |-> FALSE, data |-> None]
  ELSE IF result.kind = "undefined" THEN [threw |-> FALSE, data |-> None]
  ELSE IF result.status >= 200 /\ result.status <= 299
       THEN IF result.json = "invalid" THEN [threw |-> TRUE, data |-> None]
            ELSE [threw |-> FALSE, data |-> Some(result.sub)]
  ELSE IF result.status = 404 THEN [threw |-> FALSE, data |-> None]
  ELSE [threw |-> TRUE, data |-> None]

\* a lookup that answers null for every answer that is not 2xx
fetchEcomailSubscriberResult_NullOnAnyError(result) ==
  IF result.kind = "error" THEN [threw |-> TRUE, data |-> None]
  ELSE IF result.kind = "undefined" THEN [threw |-> TRUE, data |-> None]
  ELSE IF result.status >= 200 /\ result.status <= 299
       THEN IF result.json = "invalid" THEN [threw |-> TRUE, data |-> None]
            ELSE [threw |-> FALSE, data |-> Some(result.sub)]
  ELSE [threw |-> FALSE, data |-> None]

\* fetchEcomailSubscriber after fetchWithRetry has returned: the subscriber
\* (Some), null (None), or an exception
fetchEcomailSubscriberResult(result) ==
  IF result.kind = "error" THEN [threw |-> TRUE, data |-> None]
  ELSE IF result.kind = "undefined" THEN [threw |-> TRUE, data |-> None]
  ELSE IF ok(result)
       THEN IF result.json = "invalid" THEN [threw |-> TRUE, data |-> None]
            ELSE [threw |-> FALSE, data |-> Some(result.sub)]
  ELSE IF result.status = 404 THEN [threw |-> FALSE, data |-> None]
  ELSE [threw |-> TRUE, data |-> None]

\* ecomailSubscriber?.status
StatusOf(ecomailSubscriber) ==
  IF ecomailSubscriber = None THEN NullStatus ELSE ecomailSubscriber[1].status

\* the branch main() takes for a contact once the lookup has returned
Decide(contact, ecomailSubscriber) ==
  LET ecomailStatus == normalizeEcomailStatus(StatusOf(ecomailSubscriber))
  IN IF contact.subscribeRaw = None THEN "skipUnset"
     ELSE IF contact.subscribe
     THEN IF ecomailStatus = Num(SUBSCRIBED)
             /\ ~needsEcomailUpdate(contact, ecomailSubscriber)
          THEN "skipNoChanges"
          ELSE "subscribe"
     ELSE IF ecomailStatus = Num(UNSUBSCRIBED)
             \/ ecomailStatus = Str("NOT_FOUND")
          THEN IF ecomailStatus = Num(UNSUBSCRIBED)
                  /\ needsEcomailUpdate(contact, ecomailSubscriber)
               THEN "update"
               ELSE "skipAlready"
          ELSE "unsubscribe"

\* main() calls needsEcomailUpdate behind the && of a status test: for an
\* opted-in contact whose subscriber is subscribed, and for an opted-out
\* contact whose subscriber is unsubscribed
callsNeedsEcomailUpdate(contact, ecomailSubscriber) ==
  LET ecomailStatus == normalizeEcomailStatus(StatusOf(ecomailSubscriber))
  IN /\ contact.subscribeRaw # None
     /\ IF contact.subscribe THEN ecomailStatus = Num(SUBSCRIBED)
        ELSE ecomailStatus = Num(UNSUBSCRIBED)

\* contact and ecomailSubscriber once main() has chosen its branch
Decided(contact, ecomailSubscriber) ==
  IF callsNeedsEcomailUpdate(contact, ecomailSubscriber)
  THEN needsEcomailUpdateLeaves(contact, ecomailSubscriber)
  ELSE [notionContact |-> contact, ecomailSubscriber |-> ecomailSubscriber]

\* a classification that trusts the status code alone
MutationOutcome_StatusOnly(result) ==
  IF result.kind # "response" THEN "threw"
  ELSE IF result.status >= 200 /\ result.status <= 299
       THEN IF result.json = "invalid" THEN "threw" ELSE "success"
  ELSE "failed"

\* how main() counts the answer to a mutation
MutationOutcome(result) ==
  IF result.kind # "response" THEN "threw"
  ELSE IF ok(result)
       THEN IF result.json = "invalid" THEN "threw"
            ELSE IF result.error THEN "apiError"
            ELSE "success"
  ELSE "failed"

\* ------------------------------------------------------------------------
\* Inputs: the pages Notion returns and the answers Ecomail gives
\* ------------------------------------------------------------------------

\* values of properties.Email?.email: no value, the empty string, five
\* addresses that are not valid, and a valid address typed with a leading
\* blank (isValidEmail trims the address before it matches it)
PageEmails ==
  { None,
    Some(<<>>),
    Some(<<"a", "b">>),
    Some(<<"a", "@", "b">>),
    Some(<<"a", "@", ".", "c">>),
    Some(<<"a", " ", "@", "b", ".", "c">>),
    Some(<<" ", "a", "b", " ">>),
    Some(<<" ", "a", "@", "b", ".", "c">>) }

\* values of properties['Marketingovy status']
MarketingFields ==
  { [kind |-> "missing", name |-> None],
    [kind |-> "other", name |-> None],
    [kind |-> "select", name |-> None],
    [kind |-> "select", name |-> Some("")],
    [kind |-> "select", name |-> Some("Ano")],
    [kind |-> "select", name |-> Some("Ne")],
    [kind |-> "select", name |-> Some("Mozna")] }

PageTags == { <<>>, <<"b", "a">> }

\* the text properties of a page: at most one of them is filled in
PageTexts ==
  { [name |-> None, surname |-> None, company |-> None],
    [name |-> Some(""), surname |-> None, company |-> None],
    [name |-> Some("n"), surname |-> None, company |-> None],
    [name |-> None, surname |-> Some("s"), company |-> None],
    [name |-> None, surname |-> None, company |-> Some("c")] }

\* page.properties of a full page object; the tags and the text properties
\* vary on the pages whose status is "Ano" or "Ne"
PageProperties ==
  { [email |-> e, marketing |-> m, tags |-> t, name |-> x.name,
     surname |-> x.surname, company |-> x.company] :
      e \in PageEmails, m \in { [kind |-> "select", name |-> Some("Ano")],
                                [kind |-> "select", name |-> Some("Ne")] },
      t \in PageTags, x \in PageTexts }
  \cup { [email |-> e, marketing |-> m, tags |-> <<>>, name |-> None,
          surname |-> None, company |-> None] :
            e \in PageEmails, m \in MarketingFields }

NoProperties ==
  [email |-> None, marketing |-> [kind |-> "missing", name |-> None],
   tags |-> <<>>, name |-> None, surname |-> None, company |-> None]

\* a page is a full page object, or a partial one without properties
Pages ==
  { [partial |-> FALSE, properties |-> pr] : pr \in PageProperties }
  \cup { [partial |-> TRUE, properties |-> NoProperties] }

NoPage == [partial |-> TRUE, properties |-> NoProperties]

NoContact ==
  [email |-> None, name |-> None, surname |-> None, company |-> None,
   tags |-> <<>>, subscribe |-> FALSE, subscribeRaw |-> None]

\* values of the status field of a subscriber
RawStatuses ==
  { NullStatus, Num(1), Num(2), Num(4), Num(5), Num(6), Num(9),
    Str("SUBSCRIBED"), Str("UNSUBSCRIBED"), Str("HARD_BOUNCE"),
    Str("SPAM_COMPLAINT"), Str("UNCONFIRMED"), Str("BOGUS"),
    Str("constructor") }

SubscriberTags == { None, Some(<<"a", "b">>) }

SubscriberTexts ==
  { [name |-> None, surname |-> None, company |-> None],
    [name |-> Some("n"), surname |-> Some("s"), company |-> Some("c")] }

\* the subscriber records GET subscriber may answer with; the tags and the
\* text fields vary on the records that are subscribed or unsubscribed
Subscribers ==
  { [status |-> st, tags |-> t, name |-> x.name, surname |-> x.surname,
     company |-> x.company] :
      st \in { Num(1), Num(2), Str("SUBSCRIBED"), Str("UNSUBSCRIBED") },
      t \in SubscriberTags, x \in SubscriberTexts }
  \cup { [status |-> st, tags |-> Some(<<"a", "b">>), name |-> None,
          surname |-> None, company |-> None] : st \in RawStatuses }

\* HTTP statuses of an answer
Statuses == { 200, 404, 429, 500 }

\* values of response.headers.get('Retry-After'): null, or a decimal number
\* of seconds as the header spells it
RetryAfters == { None, Some(<<"0">>), Some(<<"1", "2">>) }

\* the errors fetch() itself rejects with
TransportErrors == { "fetch failed" }

\* fetchWithTimeout(url, options, timeout = 30000)
timeout == 30000

\* the milliseconds the network takes to settle one request
Latencies == { timeout - 1, timeout + 1 }

\* the responses fetch() may resolve with
Answers(op) ==
  { Response(429, ra, "valid", FALSE, NoSubscriber) : ra \in RetryAfters }
  \cup { Response(st, None, "valid", FALSE, NoSubscriber) :
           st \in Statuses \ {200, 429} }
  \cup { Response(200, None, "invalid", FALSE, NoSubscriber) }
  \cup ( IF op = "lookup"
         THEN { Response(200, None, "valid", FALSE, sub) :
                  sub \in Subscribers }
         ELSE { Response(200, None, "valid", e, NoSubscriber) :
                  e \in BOOLEAN } )

\* ------------------------------------------------------------------------
\* The Ecomail-to-Notion script: the comparison and the update
\* ------------------------------------------------------------------------

\* JavaScript truthiness of a status: 0, "" and null are falsy
StatusTruthy(status) ==
  \/ status.t = "number" /\ status.n # 0
  \/ status.t = "string" /\ status.s # ""
  \/ status.t = "object"

\* the object `updates` of updateNotionPage has no property
NoUpdates == << >>

\* updateNotionPage up to its test of Object.keys(updates).length
updateNotionPageUpdates(ecomailSubscriber) ==
  IF StatusTruthy(ecomailSubscriber.status)
  THEN [Subcribe |->
          [checkbox |-> ecomailSubscriber.status = Str("SUBSCRIBED")]]
  ELSE NoUpdates

\* needsUpdate: props.Subcribe?.checkbox || false  against
\* ecomailSubscriber.status === 'SUBSCRIBED'
needsUpdate(notionPage, ecomailSubscriber) ==
  LET notionSubscribed ==
        IF notionPage.Subcribe = None THEN FALSE ELSE notionPage.Subcribe[1]
      ecomailSubscribed == ecomailSubscriber.status = Str("SUBSCRIBED")
  IN notionSubscribed # ecomailSubscribed

\* values of a variable of process.env: not set, set to "", set
EnvValues == { None, Some(""), Some("x") }

\* process.env restricted to the four settings main() reads
Environments ==
  [ NOTION_TOKEN : EnvValues, NOTION_DATABASE_ID : EnvValues,
    ECOMAIL_API_KEY : EnvValues, ECOMAIL_LIST_ID : EnvValues ]

\* the answers of notion.databases.query to a query that starts at
\* start_cursor, the caller holding `have` records: the records are numbered
\* from 1 in the order of the database and a cursor is the number of the
\* record before the first one it serves
NotionResponses(start_cursor, have) ==
  LET from == IF start_cursor = None THEN 0 ELSE start_cursor[1]
      room == MaxPages - have
  IN { [results |-> [i \in 1..x[1] |-> from + i],
        has_more |-> x[2],
        next_cursor |-> IF x[2] THEN Some(from + x[1]) ELSE None] :
         x \in { y \in (0..room) \X BOOLEAN :
                   y[2] => (y[1] >= 1 /\ y[1] < room) } }

\* what the network does with one request: after `latency` ms fetch()
\* would resolve with a response or reject with an error
Network(op) ==
  { [settles |-> r, latency |-> l] :
      r \in Answers(op) \cup { Thrown(e) : e \in TransportErrors },
      l \in Latencies }

\* ------------------------------------------------------------------------
\* State of a run of main()
\* ------------------------------------------------------------------------

VARIABLES
  pc,                \* where main() stands
  nPages,            \* pages.length
  idx,               \* number of pages the for loop has finished with
  page,              \* the page of the current iteration
  contact,           \* extractContactData(page)
  ecomailSubscriber, \* what fetchEcomailSubscriber returned
  successCount,
  errorCount,
  skippedCount,
  unsubscribedCount,
  fw,                \* the fetchWithRetry that is running or has just
                     \* returned: see NoCall
  request,           \* the request of the running or last call
  result,            \* what the last fetchWithRetry handed to its caller
  lookupResult,      \* what the lookup's fetchWithRetry handed back
  calls,             \* the calls made for the current page, in order
  attempts,          \* HTTP requests sent by the call that is running or
                     \* has just returned
  entry,             \* the four counters when the iteration began
  outcome,           \* how the current iteration ended ("" while running)
  exitCode,          \* the process exit code (-1 while running)
  env,               \* process.env
  notion,            \* the module variable `notion`
  query,             \* the locals of queryNotionDatabase
  ecomailStatus,     \* normalizeEcomailStatus(ecomailSubscriber?.status)
  reverse            \* the run of the Ecomail-to-Notion script

vars ==
  << pc, nPages, idx, page, contact, ecomailSubscriber, successCount,
     errorCount, skippedCount, unsubscribedCount, fw, request, result,
     lookupResult, calls, attempts, entry, outcome, exitCode, env, notion,
     query, ecomailStatus, reverse >>

counters == << successCount, errorCount, skippedCount, unsubscribedCount >>

\* op, attempt, waitTime: the call and the locals of fetchWithRetry;
\* got: the response or the error of the current pass of its loop;
\* timer, aborted: timeoutId and controller.signal.aborted of the
\* fetchWithTimeout of that pass;
\* late: the network took longer than the timeout in that pass;
\* received: what each pass so far got ("response", "429" or "error")
NoCall ==
  [op |-> "", attempt |-> 0, waitTime |-> 0, got |-> NoResult,
   timer |-> "none", aborted |-> FALSE, late |-> FALSE, received |-> <<>>]

\* const pages = []; let hasMore = true; let startCursor = undefined
NoQuery == [hasMore |-> TRUE, startCursor |-> None, pages |-> <<>>]

\* a subscriber of the list as GET subscribers answers it
NoListed == [email |-> None, status |-> NullStatus]

\* the Ecomail-to-Notion script is not running, or is at the head of its
\* loop with no subscriber in hand
NoReverse ==
  [pc |-> "", notionPages |-> << >>, n |-> 0, idx |-> 0,
   subscriber |-> NoListed, notionPage |-> None, updates |-> None,
   outcome |-> "", updatedCount |-> 0, skippedCount |-> 0,
   notFoundCount |-> 0]

Init ==
  /\ pc = "start"
  /\ env \in Environments
  /\ notion = "undefined"
  /\ query = NoQuery
  /\ ecomailStatus = NullStatus
  /\ reverse = NoReverse
  /\ nPages = 0
  /\ idx = 0
  /\ page = NoPage
  /\ contact = NoContact
  /\ ecomailSubscriber = None
  /\ successCount = 0
  /\ errorCount = 0
  /\ skippedCount = 0
  /\ unsubscribedCount = 0
  /\ fw = NoCall
  /\ request = NoRequest
  /\ result = NoResult
  /\ lookupResult = NoResult
  /\ calls = <<>>
  /\ attempts = 0
  /\ entry = << 0, 0, 0, 0 >>
  /\ outcome = ""
  /\ exitCode = -1

\* ------------------------------------------------------------------------
\* main(): enumeration
\* ------------------------------------------------------------------------

\* a validation that does not look at ECOMAIL_LIST_ID
missingSetting_ThreeOnly(e) ==
  IF ~Truthy(e.NOTION_TOKEN) THEN "NOTION_TOKEN"
  ELSE IF ~Truthy(e.NOTION_DATABASE_ID) THEN "NOTION_DATABASE_ID"
  ELSE IF ~Truthy(e.ECOMAIL_API_KEY) THEN "ECOMAIL_API_KEY"
  ELSE ""

\* the four tests  if (!X)  at the head of main(): the first setting that
\* fails its test, or "" when all pass
missingSetting(e) ==
  IF ~Truthy(e.NOTION_TOKEN) THEN "NOTION_TOKEN"
  ELSE IF ~Truthy(e.NOTION_DATABASE_ID) THEN "NOTION_DATABASE_ID"
  ELSE IF ~Truthy(e.ECOMAIL_API_KEY) THEN "ECOMAIL_API_KEY"
  ELSE IF ~Truthy(e.ECOMAIL_LIST_ID) THEN "ECOMAIL_LIST_ID"
  ELSE ""

\* main() up to the try statement: process.exit(1) for a setting that is
\* not set, else notion = new Client(...)
ValidateEnvironment ==
  /\ pc = "start"
  /\ IF missingSetting(env) # ""
     THEN /\ pc' = "fatal"
          /\ exitCode' = 1
          /\ notion' = notion
     ELSE /\ pc' = "query"
          /\ exitCode' = exitCode
          /\ notion' = "client"
  /\ UNCHANGED << nPages, idx, page, contact, ecomailSubscriber, counters,
                  fw, request, result, lookupResult, calls, attempts, entry,
                  outcome, env, query, ecomailStatus, reverse >>

\* a loop that asks for the first page again
nextStartCursor_Restart(response) == None

\* startCursor = response.next_cursor
nextStartCursor(response) == response.next_cursor

\* exitCode of a run that ends without a call of process.exit
ExitNormally == 0

\* one pass of the while loop of queryNotionDatabase: the query throws, which
\* the catch clause of main() turns into exit code 1, or it answers; after
\* the last pass main() goes on with the list, and returns when it is empty
QueryNotionDatabase ==
  /\ pc = "query"
  /\ query.hasMore
  /\ \/ \E response \in NotionResponses(query.startCursor,
                                         Len(query.pages)) :
          LET pages == query.pages \o response.results
          IN /\ query' = [hasMore |-> response.has_more,
                          startCursor |-> nextStartCursor(response),
                          pages |-> pages]
             /\ IF response.has_more
                THEN /\ pc' = "query"
                     /\ nPages' = nPages
                     /\ exitCode' = exitCode
                ELSE /\ nPages' = Len(pages)
                     /\ IF Len(pages) = 0
                        THEN pc' = "done" /\ exitCode' = ExitNormally
                        ELSE pc' = "loop" /\ exitCode' = exitCode
     \/ /\ pc' = "fatal"
        /\ exitCode' = 1
        /\ nPages' = nPages
        /\ query' = query
  /\ UNCHANGED << idx, page, contact, ecomailSubscriber, counters, fw,
                  request, result, lookupResult, calls, attempts, entry,
                  outcome, env, notion, ecomailStatus, reverse >>

\* ------------------------------------------------------------------------
\* main(): one iteration of the loop
\* ------------------------------------------------------------------------

\* extractContactData reads page.properties.Tags: a page without properties
\* makes it throw
extractThrows(p) == p.partial

\* the iteration ends through a continue statement: no delay
Continue == pc' = "continue" /\ idx' = idx

\* the iteration ends through the end of the loop body: await delay(100)
EndOfBody == pc' = "pace" /\ idx' = idx

\* a call of fetchWithRetry starts
StartCall(op, req) ==
  /\ pc' = "fetch"
  /\ fw' = [NoCall EXCEPT !.op = op]
  /\ request' = req
  /\ result' = NoResult
  /\ attempts' = 0

\* the head of the loop body up to the first await
NextPage ==
  /\ pc = "loop"
  /\ idx < nPages
  /\ \E p \in Pages :
       /\ page' = p
       /\ ecomailSubscriber' = None
       /\ entry' = counters
       /\ lookupResult' = NoResult
       /\ IF extractThrows(p)
          THEN \* the exception leaves the loop and reaches the outer catch
               /\ pc' = "fatal"
               /\ exitCode' = 1
               /\ contact' = NoContact
               /\ outcome' = ""
               /\ calls' = <<>>
               /\ UNCHANGED << idx, counters, fw, request, result,
                               attempts >>
          ELSE LET c == extractContactData(p.properties)
               IN /\ contact' = c
                  /\ exitCode' = exitCode
                  /\ IF c.email = None \/ ~isValidEmail(c.email)
                     THEN /\ errorCount' = errorCount + 1
                          /\ outcome' = "invalid"
                          /\ calls' = <<>>
                          /\ Continue
                          /\ UNCHANGED << successCount, skippedCount,
                                          unsubscribedCount, fw, request,
                                          result, attempts >>
                     ELSE /\ outcome' = ""
                          /\ idx' = idx
                          /\ calls' = <<"lookup">>
                          /\ StartCall("lookup",
                                       fetchEcomailSubscriberRequest(c.email))
                          /\ UNCHANGED counters
  /\ UNCHANGED << nPages, env, notion, query, ecomailStatus, reverse >>

\* ------------------------------------------------------------------------
\* fetchWithRetry
\* ------------------------------------------------------------------------

\* where the caller of fetchWithRetry goes on
ReturnPoint(op) == IF op = "lookup" THEN "lookedUp" ELSE "mutated"

\* the call main() made last
LastCall == calls[Len(calls)]

\* a backoff that does not double
RetryWait_NoDoubling(attempt) == 1000

\* Math.pow(2, attempt) * 1000
RetryWait(attempt) == (2 ^ attempt) * 1000

Digit(c) ==
  CASE c = "0" -> 0 [] c = "1" -> 1 [] c = "2" -> 2 [] c = "3" -> 3
    [] c = "4" -> 4 [] c = "5" -> 5 [] c = "6" -> 6 [] c = "7" -> 7
    [] c = "8" -> 8 [] c = "9" -> 9

\* parseInt of a string of decimal digits
RECURSIVE parseInt(_)
parseInt(s) ==
  IF Len(s) = 1 THEN Digit(s[1])
  ELSE parseInt(SubSeq(s, 1, Len(s) - 1)) * 10 + Digit(s[Len(s)])

\* a wait that tests the parsed number, so that a hint of 0 seconds counts
\* as no hint
RateLimitWait_ZeroIsNoHint(retryAfter, attempt) ==
  IF retryAfter # None /\ retryAfter[1] # <<>>
     /\ parseInt(retryAfter[1]) # 0
  THEN parseInt(retryAfter[1]) * 1000
  ELSE (2 ^ attempt) * 2000

\* retryAfter ? parseInt(retryAfter) * 1000 : Math.pow(2, attempt) * 2000
\* (a string is truthy when it is not empty, "0" included)
RateLimitWait(retryAfter, attempt) ==
  IF retryAfter # None /\ retryAfter[1] # <<>>
  THEN parseInt(retryAfter[1]) * 1000
  ELSE (2 ^ attempt) * 2000

\* a test that waits and tries again after every answer that is not 2xx
isRateLimited_AnyFailure(response) == ~ok(response)

\* response.status === 429
isRateLimited(response) == response.status = 429

\* a test that lets the error out one pass early
isLastAttempt_OneEarly(attempt) == attempt = maxRetries - 2

\* attempt === maxRetries - 1 in the catch clause
isLastAttempt(attempt) == attempt = maxRetries - 1

\* a loop that allows one pass more
loopContinues_OneMore(attempt) == attempt <= maxRetries

\* a loop that ends one pass early
loopContinues_OneShort(attempt) == attempt < maxRetries - 1

\* the test of the for statement: attempt < maxRetries
loopContinues(attempt) == attempt < maxRetries

\* new Error(`Request timeout after ${timeout}ms: ${url}`)
TimeoutError == "Request timeout after 30000ms"

\* a fetchWithTimeout whose catch clause does not clear the timer
fetchWithTimeout_TimerLeftOnError(net) ==
  IF net.latency < timeout
  THEN [outcome |-> net.settles,
        timer |-> IF net.settles.kind = "error" THEN "armed" ELSE "cleared",
        aborted |-> FALSE]
  ELSE [outcome |-> Thrown(TimeoutError), timer |-> "fired",
        aborted |-> TRUE]

\* fetchWithTimeout: the timer is set, fetch() is awaited; when the timer
\* fires first the controller aborts the request and fetch() rejects with an
\* AbortError, which the catch clause replaces; both the try and the catch
\* clear the timer
fetchWithTimeout(net) ==
  IF net.latency < timeout
  THEN [outcome |-> net.settles, timer |-> "cleared", aborted |-> FALSE]
  ELSE [outcome |-> Thrown(TimeoutError), timer |-> "cleared",
        aborted |-> TRUE]

\* fetchWithRetry returns or throws
Return(frame, res) ==
  /\ result' = res
  /\ pc' = ReturnPoint(fw.op)
  /\ fw' = frame

\* await delay(waitTime) starts
Wait(frame, ms) ==
  /\ pc' = "backoff"
  /\ fw' = [frame EXCEPT !.waitTime = ms]
  /\ result' = result

\* one pass of the loop body: the request is sent and fetchWithTimeout
\* answers with a Response or throws
Attempt ==
  /\ pc = "fetch"
  /\ loopContinues(fw.attempt)
  /\ attempts' = attempts + 1
  /\ \E net \in Network(fw.op) :
       LET f == fetchWithTimeout(net)
           frame ==
             [fw EXCEPT !.got = f.outcome,
                        !.timer = f.timer,
                        !.aborted = f.aborted,
                        !.late = net.latency > timeout,
                        !.received =
                           Append(@, IF f.outcome.kind = "error" THEN "error"
                                     ELSE IF f.outcome.status = 429 THEN "429"
                                     ELSE "response")]
       IN IF f.outcome.kind = "response"
          THEN IF isRateLimited(f.outcome)
               THEN Wait(frame,
                         RateLimitWait(f.outcome.retryAfter, fw.attempt))
               ELSE Return(frame, f.outcome)
          ELSE IF isLastAttempt(fw.attempt)
               THEN Return(frame, f.outcome)
               ELSE Wait(frame, RetryWait(fw.attempt))
  /\ UNCHANGED << nPages, idx, page, contact, ecomailSubscriber, counters,
                  request, lookupResult, calls, entry, outcome, exitCode,
                  env, notion, query, ecomailStatus, reverse >>

\* the delay is over: attempt++ and the loop condition is tested; when it
\* fails the function ends without a return statement
Backoff ==
  /\ pc = "backoff"
  /\ IF loopContinues(fw.attempt + 1)
     THEN /\ pc' = "fetch"
          /\ fw' = [NoCall EXCEPT !.op = fw.op,
                                  !.attempt = fw.attempt + 1,
                                  !.received = fw.received]
          /\ result' = result
     ELSE /\ pc' = ReturnPoint(fw.op)
          /\ fw' = fw
          /\ result' = Undefined
  /\ UNCHANGED << nPages, idx, page, contact, ecomailSubscriber, counters,
                  request, lookupResult, calls, attempts, entry, outcome,
                  exitCode, env, notion, query, ecomailStatus, reverse >>

\* ------------------------------------------------------------------------
\* main(): after the lookup, after the mutation, end of the iteration
\* ------------------------------------------------------------------------

\* the catch clause of the loop body
Caught ==
  /\ errorCount' = errorCount + 1
  /\ outcome' = "error"
  /\ EndOfBody
  /\ UNCHANGED << successCount, skippedCount, unsubscribedCount >>

\* a skip that is logged and not counted
Skipped_NotCounted(how) ==
  /\ skippedCount' = skippedCount
  /\ outcome' = how
  /\ UNCHANGED << successCount, errorCount, unsubscribedCount >>

\* skippedCount++ in the three branches that send nothing
Skipped(how) ==
  /\ skippedCount' = skippedCount + 1
  /\ outcome' = how
  /\ UNCHANGED << successCount, errorCount, unsubscribedCount >>

Mutate(op, req) ==
  /\ StartCall(op, req)
  /\ calls' = Append(calls, op)
  /\ idx' = idx
  /\ outcome' = outcome
  /\ UNCHANGED counters

\* fetchEcomailSubscriber finishes and main() runs to its next await
AfterLookup ==
  /\ pc = "lookedUp"
  /\ lookupResult' = result
  /\ attempts' = 0
  /\ LET r == fetchEcomailSubscriberResult(result)
     IN IF r.threw
        THEN /\ Caught
             /\ fw' = NoCall
             /\ UNCHANGED << contact, ecomailSubscriber, ecomailStatus,
                             request, result, calls >>
        ELSE LET d == Decide(contact, r.data)
                 left == Decided(contact, r.data)
             IN /\ ecomailStatus' = normalizeEcomailStatus(StatusOf(r.data))
                /\ contact' = left.notionContact
                /\ ecomailSubscriber' = left.ecomailSubscriber
                /\ CASE d = "skipUnset" ->
                          /\ Skipped("skipUnset")
                          /\ Continue
                          /\ fw' = NoCall
                          /\ UNCHANGED << request, result, calls >>
                     [] d = "skipNoChanges" ->
                          /\ Skipped("skipNoChanges")
                          /\ Continue
                          /\ fw' = NoCall
                          /\ UNCHANGED << request, result, calls >>
                     [] d = "skipAlready" ->
                          /\ Skipped("skipAlready")
                          /\ EndOfBody
                          /\ fw' = NoCall
                          /\ UNCHANGED << request, result, calls >>
                     [] d = "subscribe" ->
                          Mutate("subscribe",
                                 addToEcomailRequest(left.notionContact))
                     [] d = "update" ->
                          Mutate("update",
                                 updateUnsubscribedContactRequest(
                                   left.notionContact))
                     [] d = "unsubscribe" ->
                          Mutate("unsubscribe",
                                 unsubscribeFromEcomailRequest(
                                   left.notionContact.email))
  /\ UNCHANGED << nPages, page, entry, exitCode, env, notion, query,
                  reverse >>

\* the mutation call finishes and main() counts its answer
AfterMutation ==
  /\ pc = "mutated"
  /\ LET m == MutationOutcome(result)
     IN IF m = "threw" THEN Caught
        ELSE IF m = "success"
        THEN /\ IF LastCall = "unsubscribe"
                THEN /\ unsubscribedCount' = unsubscribedCount + 1
                     /\ successCount' = successCount
                ELSE /\ successCount' = successCount + 1
                     /\ unsubscribedCount' = unsubscribedCount
             /\ outcome' = LastCall
             /\ EndOfBody
             /\ UNCHANGED << errorCount, skippedCount >>
        ELSE /\ errorCount' = errorCount + 1
             /\ outcome' = m
             /\ EndOfBody
             /\ UNCHANGED << successCount, skippedCount, unsubscribedCount >>
  /\ attempts' = 0
  /\ fw' = NoCall
  /\ UNCHANGED << nPages, page, contact, ecomailSubscriber, request,
                  result, lookupResult, calls, entry, exitCode, env, notion,
                  query, ecomailStatus, reverse >>

\* the variables of the loop body go out of scope and the for statement
\* takes the next page
LeaveBody ==
  /\ pc' = "loop"
  /\ idx' = idx + 1
  /\ page' = NoPage
  /\ contact' = NoContact
  /\ ecomailSubscriber' = None
  /\ fw' = NoCall
  /\ request' = NoRequest
  /\ result' = NoResult
  /\ lookupResult' = NoResult
  /\ calls' = <<>>
  /\ attempts' = 0
  /\ outcome' = ""
  /\ ecomailStatus' = NullStatus
  /\ UNCHANGED << nPages, counters, entry, exitCode, env, notion, query,
                  reverse >>

\* await delay(100) at the end of the loop body
Pace == pc = "pace" /\ LeaveBody

\* a continue statement: the rest of the body, delay included, is skipped
ContinueLoop == pc = "continue" /\ LeaveBody

\* a run that ends with success whatever it counted
ExitCode_AlwaysZero(errors) == ExitNormally

\* if (errorCount > 0) process.exit(1); else main() returns
ExitCode(errors) == IF errors > 0 THEN 1 ELSE ExitNormally

\* the loop is over: the summary is printed and the exit code is set
Summary ==
  /\ pc = "loop"
  /\ idx = nPages
  /\ pc' = "done"
  /\ exitCode' = ExitCode(errorCount)
  /\ UNCHANGED << nPages, idx, page, contact, ecomailSubscriber, counters,
                  fw, request, result, lookupResult, calls, attempts, entry,
                  outcome, env, notion, query, ecomailStatus, reverse >>

Next ==
  \/ ValidateEnvironment
  \/ QueryNotionDatabase
  \/ NextPage
  \/ Attempt
  \/ Backoff
  \/ AfterLookup
  \/ AfterMutation
  \/ Pace
  \/ ContinueLoop
  \/ Summary

Spec == Init /\ [][Next]_vars

TypeOK ==
  /\ pc \in {"start", "query", "loop", "fetch", "backoff", "lookedUp",
             "mutated", "pace", "continue", "done", "fatal"}
  /\ env \in Environments
  /\ notion \in {"undefined", "client"}
  /\ Len(query.pages) <= MaxPages
  /\ nPages \in 0..MaxPages
  /\ idx \in 0..nPages
  /\ successCount + errorCount + skippedCount + unsubscribedCount <= nPages

\* ------------------------------------------------------------------------
\* Vocabulary of the properties
\* ------------------------------------------------------------------------

\* main() is inside the loop body, working on `page`
InBody ==
  pc \in {"fetch", "backoff", "lookedUp", "mutated", "pace", "continue"}

\* the loop body has come to its end for `page`
BodyEnded == pc \in {"pace", "continue"}

\* the subscription intent the source declares: "Ano" is OptIn, "Ne" is
\* OptOut, anything else (no property, another type, no option, another
\* option) is Unset
Intent ==
  IF page.properties.marketing.kind = "select"
     /\ page.properties.marketing.name = Some("Ano") THEN "OptIn"
  ELSE IF page.properties.marketing.kind = "select"
     /\ page.properties.marketing.name = Some("Ne") THEN "OptOut"
  ELSE "Unset"

\* the email has the shape local@domain.tld, white space around it ignored:
\* one "@", no white space inside, something before the "@", and after it a
\* "." that is neither the first nor the last character
WellFormedEmail(e) ==
  /\ e # None
  /\ \E lo \in 1..Len(e[1]) : \E hi \in lo..Len(e[1]) :
       LET t  == SubSeq(e[1], lo, hi)
           at == CHOOSE k \in 1..Len(t) : t[k] = "@"
       IN /\ \A k \in 1..Len(e[1]) : (k < lo \/ k > hi) => e[1][k] = " "
          /\ Cardinality({ k \in 1..Len(t) : t[k] = "@" }) = 1
          /\ \A k \in 1..Len(t) : t[k] # " "
          /\ at > 1
          /\ \E d \in (at + 2)..(Len(t) - 1) : t[d] = "."

\* the counters as they must stand when exactly one of them has gone up by
\* one since the iteration began: 1 success, 2 error, 3 skipped,
\* 4 unsubscribed
Bumped(which) == [i \in 1..4 |-> IF i = which THEN entry[i] + 1 ELSE entry[i]]

\* the lookup has returned to main() with a subscriber or with "absent"
LookupAnswered ==
  /\ lookupResult.kind = "response"
  /\ \/ lookupResult.status = 404
     \/ /\ lookupResult.status \in 200..299
        /\ lookupResult.json = "valid"

\* the subscriber record the lookup delivered (only under a 2xx answer)
Fetched == lookupResult.sub

TargetAbsent == lookupResult.status = 404

\* the canonical status of the target: the numeric code and the mnemonic
\* string of one status are the same status
Canonical ==
  IF TargetAbsent \/ Fetched.status.t = "null" THEN "NotFound"
  ELSE IF Fetched.status \in {Num(1), Str("SUBSCRIBED")} THEN "Subscribed"
  ELSE IF Fetched.status \in {Num(2), Str("UNSUBSCRIBED")}
       THEN "Unsubscribed"
  ELSE IF Fetched.status \in {Num(4), Str("HARD_BOUNCE")} THEN "HardBounce"
  ELSE IF Fetched.status \in {Num(5), Str("SPAM_COMPLAINT")}
       THEN "SpamComplaint"
  ELSE IF Fetched.status \in {Num(6), Str("UNCONFIRMED")} THEN "Unconfirmed"
  ELSE "Opaque"

\* number of times tag t occurs in the list
Occurrences(t, list) == Cardinality({ k \in 1..Len(list) : list[k] = t })

\* the attribute difference between the page and the fetched subscriber:
\* the tag lists differ as multisets, or a filled-in text property of the
\* page differs from the subscriber's
AttributeDiff ==
  LET src == page.properties
      tgt == IF Fetched.tags = None THEN <<>> ELSE Fetched.tags[1]
  IN \/ \E t \in {"a", "b"} : Occurrences(t, src.tags) # Occurrences(t, tgt)
     \/ Truthy(src.name) /\ src.name # Fetched.name
     \/ Truthy(src.surname) /\ src.surname # Fetched.surname
     \/ Truthy(src.company) /\ src.company # Fetched.company

\* the request is a subscribe upsert
IsUpsert(req) ==
  req.method = "POST" /\ req.status = 1 /\ req.resubscribe

\* the request is a PUT that carries status 2
IsPutUnsubscribed(req) == req.method = "PUT" /\ req.status = 2

\* ------------------------------------------------------------------------
\* Properties of the run
\* ------------------------------------------------------------------------

\* C1: whenever fetchWithRetry has finished, its caller holds either a
\* response or a raised error.
C1_ReturnsResponseOrError ==
  pc \in {"lookedUp", "mutated"} => result.kind \in {"response", "error"}

\* C2: a subscribe upsert is sent only for intent OptIn, a PUT with status 2
\* only for intent OptOut, and no mutation at all for intent Unset.
C2_MutationsFollowIntent ==
  InBody =>
    /\ IsUpsert(request) => Intent = "OptIn"
    /\ IsPutUnsubscribed(request) => Intent = "OptOut"
    /\ Intent = "Unset" => request.method \notin {"POST", "PUT"}

\* C3: every value of the intent field other than "Ano" and "Ne" is read as
\* Unset: such a contact is skipped and is never unsubscribed.
C3_UnrecognizedIntentIsUnset ==
  InBody /\ Intent = "Unset" =>
    /\ \A i \in 1..Len(calls) : calls[i] \notin {"unsubscribe", "update"}
    /\ BodyEnded /\ LookupAnswered => counters = Bumped(3)

\* C4: a contact with a valid email and intent Unset ends its iteration
\* counted as skipped, whatever the lookup answered.
C4_UnsetAlwaysSkipped ==
  BodyEnded /\ WellFormedEmail(page.properties.email) /\ Intent = "Unset"
    => counters = Bumped(3)

\* C5: a contact whose email is empty or ill-formed causes no request at
\* all, raises the failed counter by exactly one and the loop goes on.
C5_InvalidEmailRejected ==
  InBody /\ ~WellFormedEmail(page.properties.email) =>
    /\ pc = "continue"
    /\ calls = <<>>
    /\ attempts = 0
    /\ request = NoRequest
    /\ counters = Bumped(2)
    /\ exitCode = -1

\* a second ill-formed email is rejected after a first rejection
C5_Witness ==
  /\ pc = "continue"
  /\ idx = 1
  /\ page.properties.email = Some(<<"a", "@", "b">>)
  /\ errorCount = 2
  /\ calls = <<>>

\* C6: for intent OptIn the contact is skipped exactly when the target is
\* Subscribed and no attribute differs; otherwise exactly one subscribe
\* upsert is issued.
C6_OptInDecision ==
  InBody /\ Intent = "OptIn" /\ LookupAnswered =>
    IF Canonical = "Subscribed" /\ ~AttributeDiff
    THEN /\ calls = <<"lookup">>
         /\ pc = "continue"
         /\ counters = Bumped(3)
    ELSE /\ calls = <<"lookup", "subscribe">>
         /\ IsUpsert(request)

\* a subscribed target (status given as a string) whose tags must be cleared
C6_Witness ==
  /\ pc = "mutated"
  /\ Intent = "OptIn"
  /\ LookupAnswered
  /\ Fetched.status = Str("SUBSCRIBED")
  /\ page.properties.tags = <<>>
  /\ Fetched.tags = Some(<<"a", "b">>)
  /\ calls = <<"lookup", "subscribe">>

\* C7: for intent OptOut: Unsubscribed without a difference is skipped,
\* Unsubscribed with a difference gets one keep-unsubscribed update, NotFound
\* is skipped, every other status gets one unsubscribe request.
C7_OptOutDecision ==
  InBody /\ Intent = "OptOut" /\ LookupAnswered =>
    IF Canonical = "NotFound" \/ (Canonical = "Unsubscribed" /\ ~AttributeDiff)
    THEN /\ calls = <<"lookup">>
         /\ pc = "pace"
         /\ counters = Bumped(3)
    ELSE IF Canonical = "Unsubscribed"
    THEN /\ calls = <<"lookup", "update">>
         /\ IsPutUnsubscribed(request)
         /\ request.tags = Some(page.properties.tags)
    ELSE /\ calls = <<"lookup", "unsubscribe">>
         /\ IsPutUnsubscribed(request)
         /\ request.tags = None

\* an unsubscribed target (status given as a string) with other tags
C7_Witness ==
  /\ pc = "mutated"
  /\ Intent = "OptOut"
  /\ LookupAnswered
  /\ Fetched.status = Str("UNSUBSCRIBED")
  /\ AttributeDiff
  /\ calls = <<"lookup", "update">>

\* C8: a 404 answer to the lookup means "absent" and is not a failure; any
\* other non-2xx answer counts the contact as failed once and no mutation
\* is issued.
C8_LookupStatus ==
  InBody /\ lookupResult.kind = "response" =>
    /\ lookupResult.status = 404 =>
         /\ ecomailSubscriber = None
         /\ Len(calls) = 1 => counters = Bumped(3)
    /\ lookupResult.status \notin 200..299 /\ lookupResult.status # 404 =>
         /\ calls = <<"lookup">>
         /\ pc = "pace"
         /\ counters = Bumped(2)

\* a lookup answered with 500 for a contact that wants to be subscribed
C8_Witness ==
  /\ pc = "pace"
  /\ Intent = "OptIn"
  /\ lookupResult.kind = "response"
  /\ lookupResult.status = 500
  /\ counters = Bumped(2)

\* C9: on every mutation path a non-2xx answer, and a 2xx answer with an
\* error in its body, raise the failed counter and no success counter; a
\* success counter goes up only for a 2xx answer without an error.
C9_MutationOutcomeCounted ==
  pc = "pace" /\ Len(calls) = 2 =>
    LET twoxx == result.kind = "response" /\ result.status \in 200..299
    IN /\ result.kind = "response" /\ (~twoxx \/ result.error)
            => counters = Bumped(2)
       /\ successCount > entry[1] \/ unsubscribedCount > entry[4]
            => twoxx /\ ~result.error
       /\ twoxx /\ ~result.error /\ result.json = "valid"
            => counters = Bumped(IF calls[2] = "unsubscribe" THEN 4 ELSE 1)

\* an unsubscribe answered 200 with an error object in the body
C9_Witness ==
  /\ pc = "pace"
  /\ calls = <<"lookup", "unsubscribe">>
  /\ result.kind = "response"
  /\ result.status = 200
  /\ result.error
  /\ counters = Bumped(2)

\* C10: no failure inside the loop ends the run early; once the list is
\* enumerated every page is reached.
C10_EveryContactReached ==
  pc \in {"done", "fatal"} => idx = nPages

\* C11: the loop moves on to the next page only out of the pacing delay,
\* whatever way the iteration ended.
C11_DelayAfterEveryIteration == [][idx' = idx + 1 => pc = "pace"]_vars

\* ------------------------------------------------------------------------
\* Vocabulary of the properties of one call
\* ------------------------------------------------------------------------

\* fetchWithRetry has handed its result to the caller
Returned == pc \in {"lookedUp", "mutated"}

\* what the latest pass of the call got
LastReceived == fw.received[Len(fw.received)]

\* every pass of the call so far has failed at transport level
OnlyTransportFailures ==
  /\ fw.received # <<>>
  /\ \A i \in 1..Len(fw.received) : fw.received[i] = "error"

\* the decimal spelling of a number of seconds
RECURSIVE Decimal(_)
Decimal(n) ==
  LET d == CASE n % 10 = 0 -> "0" [] n % 10 = 1 -> "1" [] n % 10 = 2 -> "2"
             [] n % 10 = 3 -> "3" [] n % 10 = 4 -> "4" [] n % 10 = 5 -> "5"
             [] n % 10 = 6 -> "6" [] n % 10 = 7 -> "7" [] n % 10 = 8 -> "8"
             [] n % 10 = 9 -> "9"
  IN IF n < 10 THEN << d >> ELSE Append(Decimal(n \div 10), d)

\* the response carries a Retry-After hint of n seconds
HintOf(response, n) == response.retryAfter = Some(Decimal(n))

\* ------------------------------------------------------------------------
\* Properties of one call
\* ------------------------------------------------------------------------

\* C12: while every pass fails at transport level, the call waits
\* 1000 * 2^k ms after pass k for k = 0..maxRetries-2; after pass
\* maxRetries-1 it does not wait, it raises the error of that pass, having
\* made exactly maxRetries attempts.
C12_TransportFailuresExhaustRetries ==
  OnlyTransportFailures =>
    LET k == Len(fw.received) - 1
    IN /\ attempts = k + 1
       /\ pc \in {"backoff", "fetch", "lookedUp", "mutated"}
       /\ pc = "backoff" =>
            /\ k <= maxRetries - 2
            /\ fw.attempt = k
            /\ fw.waitTime = 1000 * 2 ^ k
       /\ pc = "fetch" =>
            /\ k <= maxRetries - 2
            /\ fw.attempt = k + 1
       /\ Returned =>
            /\ k = maxRetries - 1
            /\ result.kind = "error"
            /\ fw.got.kind = "error"
            /\ result.err = fw.got.err

\* three transport failures in a row, the last of them a timeout, raised
\* to updateUnsubscribedContact
C12_Witness ==
  /\ pc = "mutated"
  /\ LastCall = "update"
  /\ fw.received = << "error", "error", "error" >>
  /\ attempts = maxRetries
  /\ result.kind = "error"
  /\ result.err = TimeoutError

\* C13: a pass that receives 429 is followed by a wait, never by a failure
\* or by the return of the 429 response; after the wait the next pass
\* starts as long as fewer than maxRetries attempts have been made.
C13_RateLimitedIsRetried ==
  [][ /\ (pc = "fetch" /\ fw'.got.kind = "response" /\ fw'.got.status = 429)
           => pc' = "backoff"
      /\ (pc = "backoff" /\ LastReceived = "429" /\ attempts < maxRetries)
           => /\ pc' = "fetch"
              /\ fw'.attempt = attempts
              /\ fw'.op = fw.op
      /\ (Returned' /\ result'.kind = "response") => result'.status # 429
    ]_vars

\* two answers 429 in a row, and the third pass about to start
C13_Witness ==
  /\ pc = "fetch"
  /\ fw.received = << "429", "429" >>
  /\ fw.attempt = 2
  /\ attempts = 2

\* C14: the wait after a 429 on pass k is n * 1000 ms when the response
\* carries a Retry-After hint of n seconds, n = 0 included, and
\* 2000 * 2^k ms when it carries none.
C14_RateLimitWaitExact ==
  pc = "backoff" /\ fw.got.kind = "response" /\ fw.got.status = 429 =>
    /\ \A n \in 0..20 : HintOf(fw.got, n) => fw.waitTime = n * 1000
    /\ fw.got.retryAfter # None => \E n \in 0..20 : HintOf(fw.got, n)
    /\ fw.got.retryAfter = None => fw.waitTime = 2000 * 2 ^ fw.attempt
    /\ fw.got.retryAfter = None => fw.waitTime # 1000 * 2 ^ fw.attempt

\* a hint of 0 seconds on the second pass is waited as 0 ms
C14_Witness ==
  /\ pc = "backoff"
  /\ fw.attempt = 1
  /\ fw.got.kind = "response"
  /\ fw.got.status = 429
  /\ HintOf(fw.got, 0)
  /\ fw.waitTime = 0

\* C15: a response whose status is not 429 is what the caller receives,
\* from the pass that received it, and the call makes no further pass.
C15_OtherResponsesReturned ==
  /\ fw.got.kind = "response" /\ fw.got.status # 429 =>
       /\ Returned
       /\ result = fw.got
       /\ LastReceived = "response"
       /\ attempts = Len(fw.received)
  /\ \A i \in 1..(Len(fw.received) - 1) : fw.received[i] # "response"

\* a 404 received by the second pass of the lookup, after a 429
C15_Witness ==
  /\ pc = "lookedUp"
  /\ fw.received = << "429", "response" >>
  /\ result.kind = "response"
  /\ result.status = 404

\* C16: a pass whose request is not settled within the timeout is aborted
\* and raises the timeout error, which no other failure raises; a pass
\* settled in time never raises it; either way the timer is cleared once
\* fetchWithTimeout has completed.
C16_TimeoutRaisedAndTimerCleared ==
  fw.got.kind # "none" =>
    /\ fw.timer = "cleared"
    /\ fw.late => fw.aborted /\ fw.got = Thrown(TimeoutError)
    /\ ~fw.late => ~fw.aborted /\ fw.got.err # TimeoutError
    /\ Returned /\ result.kind = "error" =>
         (result.err = TimeoutError <=> fw.late)

\* the first pass of a lookup has timed out and the call is backing off
C16_Witness ==
  /\ pc = "backoff"
  /\ fw.op = "lookup"
  /\ fw.late
  /\ fw.aborted
  /\ fw.timer = "cleared"
  /\ fw.got = Thrown(TimeoutError)

\* ------------------------------------------------------------------------
\* Successive runs of main() for one contact against a target that stores
\* what it is sent
\* ------------------------------------------------------------------------

\* the ways Ecomail spells a status code in a subscriber record
StoredAs(code) ==
  { Num(code) } \cup
  { Str(m) : m \in { n \in { "SUBSCRIBED", "UNSUBSCRIBED" } :
                       STATUS_STRING_TO_CODE(n) = code } }

\* the subscriber record GET subscriber answers with once Ecomail has
\* stored the request: subscriber_data.status, payload.tags and the fields
\* of subscriber_data that were sent replace what was stored, the rest stays
Stored(req, ecomailSub, status) ==
  LET old == IF ecomailSub = None THEN NoSubscriber ELSE ecomailSub[1]
  IN [status |-> status,
      tags |-> IF req.tags # None THEN req.tags ELSE old.tags,
      name |-> IF req.name # None THEN req.name ELSE old.name,
      surname |-> IF req.surname # None THEN req.surname ELSE old.surname,
      company |-> IF req.company # None THEN req.company ELSE old.company]

\* a run is about to decide for a page with a valid email, the lookup
\* having answered "absent" or some subscriber record
InitResync ==
  /\ pc = "lookedUp"
  /\ nPages = 1
  /\ idx = 0
  /\ page \in { p \in Pages : /\ ~p.partial
                              /\ p.properties.email # None
                              /\ isValidEmail(p.properties.email) }
  /\ contact = extractContactData(page.properties)
  /\ ecomailSubscriber \in { None } \cup { Some(sub) : sub \in Subscribers }
  /\ successCount = 0
  /\ errorCount = 0
  /\ skippedCount = 0
  /\ unsubscribedCount = 0
  /\ fw = NoCall
  /\ request = NoRequest
  /\ result = NoResult
  /\ lookupResult = NoResult
  /\ calls = <<>>
  /\ attempts = 0
  /\ entry = << 0, 0, 0, 0 >>
  /\ outcome = ""
  /\ exitCode = -1
  /\ env = [NOTION_TOKEN |-> Some("x"), NOTION_DATABASE_ID |-> Some("x"),
            ECOMAIL_API_KEY |-> Some("x"), ECOMAIL_LIST_ID |-> Some("x")]
  /\ notion = "client"
  /\ query = [hasMore |-> FALSE, startCursor |-> None, pages |-> <<1>>]
  /\ ecomailStatus = NullStatus
  /\ reverse = NoReverse

\* main() from the answer of the lookup to the request of the mutation, or
\* to the skip
SyncContact ==
  /\ pc = "lookedUp"
  /\ LET d == Decide(contact, ecomailSubscriber)
         left == Decided(contact, ecomailSubscriber)
     IN /\ outcome' = d
        /\ ecomailStatus' =
             normalizeEcomailStatus(StatusOf(ecomailSubscriber))
        /\ contact' = left.notionContact
        /\ ecomailSubscriber' = left.ecomailSubscriber
        /\ CASE d \in {"skipUnset", "skipNoChanges"} ->
                  pc' = "continue" /\ UNCHANGED << request, calls >>
             [] d = "skipAlready" ->
                  pc' = "pace" /\ UNCHANGED << request, calls >>
             [] d = "subscribe" ->
                  /\ Len(calls) < MaxRuns
                  /\ pc' = "mutated"
                  /\ request' = addToEcomailRequest(left.notionContact)
                  /\ calls' = Append(calls, d)
             [] d = "update" ->
                  /\ Len(calls) < MaxRuns
                  /\ pc' = "mutated"
                  /\ request' =
                       updateUnsubscribedContactRequest(left.notionContact)
                  /\ calls' = Append(calls, d)
             [] d = "unsubscribe" ->
                  /\ Len(calls) < MaxRuns
                  /\ pc' = "mutated"
                  /\ request' =
                       unsubscribeFromEcomailRequest(left.notionContact.email)
                  /\ calls' = Append(calls, d)
  /\ UNCHANGED << nPages, idx, page, counters, fw, result, lookupResult,
                  attempts, entry, exitCode, env, notion, query, reverse >>

\* Ecomail stores the request; the lookup of the next run answers with the
\* stored record
TargetStores ==
  /\ pc = "mutated"
  /\ \E status \in StoredAs(request.status) :
       ecomailSubscriber' = Some(Stored(request, ecomailSubscriber, status))
  /\ pc' = "lookedUp"
  /\ UNCHANGED << nPages, idx, page, contact, counters, fw, request, result,
                  lookupResult, calls, attempts, entry, outcome, exitCode,
                  env, notion, query, ecomailStatus, reverse >>

\* the next run after a skip: the lookup answers with the same record
RunAgain ==
  /\ pc \in {"continue", "pace"}
  /\ pc' = "lookedUp"
  /\ UNCHANGED << nPages, idx, page, contact, ecomailSubscriber, counters,
                  fw, request, result, lookupResult, calls, attempts, entry,
                  outcome, exitCode, env, notion, query, ecomailStatus,
                  reverse >>

NextResync ==
  \/ SyncContact
  \/ TargetStores
  \/ RunAgain

SpecResync == InitResync /\ [][NextResync]_vars

\* ------------------------------------------------------------------------
\* Properties of successive runs
\* ------------------------------------------------------------------------

\* the decisions that send nothing
Skips == { "skipUnset", "skipNoChanges", "skipAlready" }

\* the mutation sent last for the contact
LastSent == calls[Len(calls)]

\* C17: the run that follows a stored subscribe upsert skips the contact,
\* and a run that follows a skip decides as the run before it did.
C17_UpsertThenSkip ==
  [][ /\ (pc = "lookedUp" /\ calls # <<>> /\ LastSent = "subscribe")
           => /\ outcome' = "skipNoChanges"
              /\ pc' = "continue"
              /\ calls' = calls
      /\ (pc = "lookedUp" /\ outcome \in Skips)
           => outcome' = outcome /\ calls' = calls
    ]_vars

\* tags cleared on the page: the upsert was stored with the status spelled
\* as a string and the next run has skipped
C17_Witness ==
  /\ pc = "continue"
  /\ calls = << "subscribe" >>
  /\ outcome = "skipNoChanges"
  /\ contact.tags = <<>>
  /\ ecomailSubscriber = Some([status |-> Str("SUBSCRIBED"), tags |-> Some(<<>>),
                               name |-> Some("n"), surname |-> Some("s"),
                               company |-> Some("c")])

\* the status of the record the lookup answered with is Unsubscribed, in
\* either spelling
TargetUnsubscribed ==
  /\ ecomailSubscriber # None
  /\ ecomailSubscriber[1].status \in { Num(2), Str("UNSUBSCRIBED") }

\* C18: every keep-unsubscribed update carries status 2 and the tag list of
\* the contact, and once it is stored the target is still Unsubscribed with
\* exactly the tags of the contact.
C18_UpdateKeepsUnsubscribed ==
  calls # <<>> /\ LastSent = "update" =>
    /\ request.method = "PUT"
    /\ request.status = 2
    /\ request.tags = Some(page.properties.tags)
    /\ pc # "mutated" =>
         /\ TargetUnsubscribed
         /\ ecomailSubscriber[1].tags = Some(page.properties.tags)

\* an unsubscribed target whose tags the update has cleared, fetched again
C18_Witness ==
  /\ pc = "lookedUp"
  /\ calls = << "update" >>
  /\ Intent = "OptOut"
  /\ page.properties.tags = <<>>
  /\ ecomailSubscriber # None
  /\ ecomailSubscriber[1].status = Str("UNSUBSCRIBED")
  /\ ecomailSubscriber[1].tags = Some(<<>>)

\* ------------------------------------------------------------------------
\* Properties of the payloads
\* ------------------------------------------------------------------------

\* the request carries a payload built from the contact: the subscribe
\* upsert and the keep-unsubscribed update
CarriesContact == LastCall \in {"subscribe", "update"}

\* C19: a page without tags whose target has tags is never skipped for
\* "no changes", and the upsert and the keep-unsubscribed update sent for a
\* page without tags carry the empty list itself.
C19_EmptyTagsSentExplicitly ==
  InBody /\ page.properties.tags = <<>> =>
    /\ calls # <<>> /\ CarriesContact /\ pc \in {"fetch", "backoff", "mutated"}
         => request.tags = Some(<<>>)
    /\ ( /\ LookupAnswered
         /\ ~TargetAbsent
         /\ Fetched.tags # None
         /\ Fetched.tags # Some(<<>>) ) =>
           /\ Intent = "OptIn" =>
                calls = <<"lookup", "subscribe">> /\ request.tags = Some(<<>>)
           /\ Intent = "OptOut" /\ Canonical = "Unsubscribed" =>
                calls = <<"lookup", "update">> /\ request.tags = Some(<<>>)

\* a keep-unsubscribed update that clears the tags of the target
C19_Witness ==
  /\ pc = "mutated"
  /\ Intent = "OptOut"
  /\ page.properties.tags = <<>>
  /\ LookupAnswered
  /\ Fetched.tags = Some(<<"a", "b">>)
  /\ calls = <<"lookup", "update">>
  /\ request.tags = Some(<<>>)
  /\ result.kind = "response"
  /\ result.status = 200

\* the text fields of the page, in the order name, surname, company
SourceTexts ==
  << page.properties.name, page.properties.surname, page.properties.company >>

TargetTexts == << Fetched.name, Fetched.surname, Fetched.company >>

SentTexts == << request.name, request.surname, request.company >>

\* the page has no value, or the empty string, for the field
EmptyText(v) == v = None \/ v = Some("")

\* C20: an upsert or a keep-unsubscribed update carries a text field exactly
\* when the page has a non-empty value for it, and then that value; a field
\* the page leaves empty makes no difference, whatever the target holds.
C20_TextFieldsOnlyWhenFilled ==
  InBody =>
    /\ calls # <<>> /\ CarriesContact /\ pc \in {"fetch", "backoff", "mutated"}
         => \A i \in 1..3 :
              SentTexts[i] = IF EmptyText(SourceTexts[i]) THEN None
                             ELSE SourceTexts[i]
    /\ ( /\ LookupAnswered
         /\ ~TargetAbsent
         /\ \A t \in {"a", "b"} :
              Occurrences(t, page.properties.tags)
                = Occurrences(t, IF Fetched.tags = None THEN <<>>
                                 ELSE Fetched.tags[1])
         /\ \A i \in 1..3 :
              EmptyText(SourceTexts[i]) \/ SourceTexts[i] = TargetTexts[i] )
         =>
           /\ Intent = "OptIn" /\ Canonical = "Subscribed" =>
                calls = <<"lookup">> /\ pc = "continue"
           /\ Intent = "OptOut" /\ Canonical = "Unsubscribed" =>
                calls = <<"lookup">> /\ pc = "pace"
    /\ ( /\ LookupAnswered
         /\ ~TargetAbsent
         /\ \E i \in 1..3 :
              ~EmptyText(SourceTexts[i]) /\ SourceTexts[i] # TargetTexts[i] )
         =>
           /\ Intent = "OptIn" =>
                calls = <<"lookup", "subscribe">>
           /\ Intent = "OptOut" /\ Canonical = "Unsubscribed" =>
                calls = <<"lookup", "update">>

\* the page leaves every text field empty, the target holds all three, and
\* the contact is skipped
C20_Witness ==
  /\ pc = "continue"
  /\ Intent = "OptIn"
  /\ LookupAnswered
  /\ Canonical = "Subscribed"
  /\ page.properties.name = Some("")
  /\ Fetched.name = Some("n")
  /\ Fetched.company = Some("c")
  /\ calls = <<"lookup">>
  /\ counters = Bumped(3)

\* ------------------------------------------------------------------------
\* Properties of the comparison, the exit code and the start of a run
\* ------------------------------------------------------------------------

\* the tags of the subscriber record, in the order the record lists them
ListedTags(sub) == IF sub = None THEN None ELSE sub[1].tags

\* C21: the comparison of a contact with its subscriber leaves both of its
\* inputs as they were: when main() decides what to do for a contact, the
\* contact's tag list and the subscriber's tag list hold the same elements
\* in the same order after the decision as before it
C21_ComparisonLeavesInputs ==
  [][pc = "lookedUp" =>
       /\ contact'.tags = contact.tags
       /\ ListedTags(ecomailSubscriber') = ListedTags(ecomailSubscriber)
       /\ contact'.tags = page.properties.tags]_vars

\* a contact whose tags are not in sorted order was compared with a
\* subscriber whose tags are not in sorted order, and found equal
C21_Witness ==
  /\ pc = "continue"
  /\ outcome = "skipNoChanges"
  /\ contact.tags = << "b", "a" >>
  /\ ListedTags(ecomailSubscriber) = Some(<< "b", "a" >>)

\* C22: a run that comes to its end exits with failure whenever it has
\* counted a failure, whatever it has counted as success, and exits with
\* success when it has counted none
C22_ExitCodeFollowsFailures ==
  pc = "done" =>
    /\ errorCount > 0 => exitCode = 1
    /\ errorCount = 0 => exitCode = 0

\* a run has ended with one contact synced and one contact failed
C22_Witness ==
  /\ pc = "done"
  /\ successCount = 1
  /\ errorCount = 1
  /\ exitCode = 1

\* one of the four required settings is not set, or set to nothing
SettingMissing ==
  \E v \in { env.NOTION_TOKEN, env.NOTION_DATABASE_ID, env.ECOMAIL_API_KEY,
             env.ECOMAIL_LIST_ID } : v = None \/ v = Some("")

\* no request has been made to the source or to the target
NothingRequested ==
  /\ query = NoQuery
  /\ request = NoRequest
  /\ calls = << >>
  /\ attempts = 0
  /\ fw = NoCall

\* C23: when one of the four required settings is missing, the run is
\* either still at its start or has aborted with the failure exit code; the
\* source client has not been constructed and no request has been made to
\* the source or to the target
C23_MissingSettingAbortsFirst ==
  SettingMissing =>
    /\ pc \in { "start", "fatal" }
    /\ pc = "fatal" => exitCode = 1
    /\ pc = "start" => exitCode = -1
    /\ notion = "undefined"
    /\ NothingRequested

\* the run has aborted because the last of the four settings is not set
C23_Witness ==
  /\ env.NOTION_TOKEN = Some("x")
  /\ env.NOTION_DATABASE_ID = Some("x")
  /\ env.ECOMAIL_API_KEY = Some("x")
  /\ env.ECOMAIL_LIST_ID = None
  /\ pc = "fatal"
  /\ exitCode = 1
  /\ notion = "undefined"

\* the query of the source has failed: the run has aborted with the client
\* constructed and the listing not finished
QueryFailed == pc = "fatal" /\ notion = "client" /\ query.hasMore

\* C24: the listing of the source follows the pagination to its end: each
\* further query carries the cursor of the page before it, the records of
\* the pages are kept in the order they came, and the loop over the
\* contacts starts only once a page has reported that there are no more,
\* with all the records listed; when a query fails, the run ends with the
\* failure exit code and nothing has been requested from the target
C24_ListingToExhaustion ==
  /\ query.pages = [i \in 1..Len(query.pages) |-> i]
  /\ query.hasMore /\ query.pages # << >> =>
       query.startCursor = Some(Len(query.pages))
  /\ pc \notin { "start", "query", "fatal" } =>
       ~query.hasMore /\ nPages = Len(query.pages)
  /\ QueryFailed =>
       /\ exitCode = 1
       /\ idx = 0
       /\ request = NoRequest /\ calls = << >> /\ attempts = 0 /\ fw = NoCall
       /\ counters = << 0, 0, 0, 0 >>

\* the first page of the listing has come with a cursor, and the query for
\* the second page has failed
C24_Witness ==
  /\ QueryFailed
  /\ query.pages = << 1 >>
  /\ query.startCursor = Some(1)
  /\ exitCode = 1

\* ------------------------------------------------------------------------
\* Properties of the status normalisation
\* ------------------------------------------------------------------------

\* the five mnemonics and their codes
Mnemonics ==
  { << "SUBSCRIBED", 1 >>, << "UNSUBSCRIBED", 2 >>, << "HARD_BOUNCE", 4 >>,
    << "SPAM_COMPLAINT", 5 >>, << "UNCONFIRMED", 6 >> }

\* what the normalisation is said to return for a raw status
Normalized(raw) ==
  IF raw.t = "null" THEN Str("NOT_FOUND")
  ELSE IF raw.t = "number" THEN raw
  ELSE IF \E m \in Mnemonics : m[1] = raw.s
       THEN Num((CHOOSE m \in Mnemonics : m[1] = raw.s)[2])
       ELSE raw

\* C25: the status the loop body works with is NOT_FOUND when the lookup
\* found no subscriber or the subscriber has no status, the code of the
\* mnemonic when the status is one of the five mnemonics, and the status as
\* received when it is a number or any other string
C25_NormalizationTotal ==
  LookupAnswered =>
    ecomailStatus =
      Normalized(IF TargetAbsent THEN NullStatus ELSE Fetched.status)

\* ------------------------------------------------------------------------
\* Properties of the order of the work
\* ------------------------------------------------------------------------

\* the number of contacts whose outcome has been counted
Counted == successCount + errorCount + skippedCount + unsubscribedCount

\* C26: the contacts are processed one at a time in the order of the source
\* list: while the contact at position idx is being worked on, exactly the
\* idx contacts before it have been counted and it has not; the only
\* request there can be is one request of the contact being worked on; once
\* its outcome is counted, idx plus one contacts are counted, and only then
\* does the loop move to the next position
C26_OneContactAtATime ==
  /\ pc \in { "loop", "done" } => Counted = idx /\ request = NoRequest
  /\ pc \in { "fetch", "backoff", "lookedUp", "mutated" } =>
       /\ Counted = idx
       /\ idx < nPages
       /\ counters = entry
       /\ request # NoRequest
       /\ request.email = contact.email
  /\ BodyEnded => Counted = idx + 1 /\ idx < nPages

\* the lookup of the second contact is about to be sent, the first contact
\* having been counted after its mutation
C26_Witness ==
  /\ pc = "fetch"
  /\ idx = 1
  /\ Counted = 1
  /\ successCount = 1
  /\ calls = << "lookup" >>
  /\ request.endpoint = "subscriber"

\* the current pass of the call has ended with the timeout error
TimedOut == fw.got = Thrown(TimeoutError)

\* C27: the timeout is scoped to one call: a pass is aborted only when its
\* own request has outlasted the timeout, and a pass that begins has no
\* timer and no abort left over from an earlier one; a timed-out pass is
\* retried after the same backoff as any transport failure; the timeout
\* error reaches the loop only from the last pass of the attempt budget; and
\* the loop counts it as exactly one failure for the contact
C27_TimeoutIsCallScoped ==
  /\ fw.aborted => fw.late /\ TimedOut
  /\ pc = "fetch" => fw.timer = "none" /\ ~fw.aborted /\ ~fw.late
  /\ pc = "backoff" /\ fw.got.kind = "error" =>
       /\ fw.attempt < maxRetries - 1
       /\ fw.waitTime = 1000 * (2 ^ fw.attempt)
  /\ Returned /\ result = Thrown(TimeoutError) =>
       /\ TimedOut
       /\ attempts = maxRetries
       /\ Len(fw.received) = maxRetries
       /\ counters = entry
  /\ BodyEnded /\ result = Thrown(TimeoutError) =>
       /\ pc = "pace"
       /\ outcome = "error"
       /\ counters = Bumped(2)

\* the lookup of the first of two contacts has timed out in its last pass,
\* after two failed passes, and has been counted as one failure
C27_Witness ==
  /\ pc = "pace"
  /\ nPages = 2
  /\ idx = 0
  /\ calls = << "lookup" >>
  /\ result = Thrown(TimeoutError)
  /\ counters = << 0, 1, 0, 0 >>

\* ------------------------------------------------------------------------
\* The Ecomail-to-Notion script
\* ------------------------------------------------------------------------

\* the number of subscribers the list of Ecomail holds at most
MaxSubscribers == 2

\* String.prototype.toLowerCase on the addresses of the subscribers and of
\* the pages
toLowerCase(s) == IF s = "A@B.C" THEN "a@b.c" ELSE s

\* the entries of data.data: the status is a code, a string or nothing; an
\* entry may lack the email
ListedSubscribers ==
  { [email |-> Some("a@b.c"), status |-> st] :
      st \in RawStatuses \cup { Num(0), Str("") } }
  \cup { [email |-> e, status |-> Num(1)] : e \in { None, Some("") } }

\* the pages of the Notion database as the script reads them:
\* properties.Email?.email and properties.Subcribe?.checkbox
NotionContacts ==
  { [email |-> Some(e), Subcribe |-> c] :
      e \in { "A@B.C", "x@y.z" }, c \in { None, Some(FALSE), Some(TRUE) } }
  \cup { [email |-> None, Subcribe |-> None] }

\* the lists fetchNotionContacts can return
NotionContactLists ==
  UNION { [1..k -> NotionContacts] : k \in 0..MaxPages }

\* notionPages.find(...): the first page whose address is truthy and equals
\* the subscriber's address when both are put in lower case
findNotionPageByEmail(notionPages, email) ==
  LET hits == { i \in 1..Len(notionPages) :
                  /\ Truthy(notionPages[i].email)
                  /\ toLowerCase(notionPages[i].email[1]) =
                       toLowerCase(email) }
  IN IF hits = {} THEN None
     ELSE Some(notionPages[CHOOSE i \in hits : \A j \in hits : i <= j])

\* main() of the script is at its try statement, the settings validated
InitReverse ==
  /\ reverse = [NoReverse EXCEPT !.pc = "fetch"]
  /\ pc = "reverse"
  /\ env = [NOTION_TOKEN |-> Some("x"), NOTION_DATABASE_ID |-> Some("x"),
            ECOMAIL_API_KEY |-> Some("x"), ECOMAIL_LIST_ID |-> Some("x")]
  /\ notion = "client"
  /\ query = NoQuery
  /\ ecomailStatus = NullStatus
  /\ nPages = 0
  /\ idx = 0
  /\ page = NoPage
  /\ contact = NoContact
  /\ ecomailSubscriber = None
  /\ successCount = 0
  /\ errorCount = 0
  /\ skippedCount = 0
  /\ unsubscribedCount = 0
  /\ fw = NoCall
  /\ request = NoRequest
  /\ result = NoResult
  /\ lookupResult = NoResult
  /\ calls = << >>
  /\ attempts = 0
  /\ entry = << 0, 0, 0, 0 >>
  /\ outcome = ""
  /\ exitCode = -1

\* the variables of the Notion-to-Ecomail script
forward ==
  << pc, nPages, idx, page, contact, ecomailSubscriber, successCount,
     errorCount, skippedCount, unsubscribedCount, fw, request, result,
     lookupResult, calls, attempts, entry, outcome, env, notion, query,
     ecomailStatus >>

\* await Promise.all([fetchEcomailSubscribers(), fetchNotionContacts()]):
\* both lists arrive, or one of the two throws and the catch clause of main()
\* exits with 1
FetchBoth ==
  /\ reverse.pc = "fetch"
  /\ \/ \E n \in 0..MaxSubscribers : \E notionPages \in NotionContactLists :
          /\ reverse' = [reverse EXCEPT !.pc = "loop", !.n = n,
                                        !.notionPages = notionPages]
          /\ exitCode' = exitCode
     \/ /\ reverse' = [reverse EXCEPT !.pc = "fatal"]
        /\ exitCode' = 1
  /\ UNCHANGED forward

\* the loop body up to the call of updateNotionPage, or to the end of the
\* iteration when there is no such call
NextSubscriber ==
  /\ reverse.pc = "loop"
  /\ reverse.idx < reverse.n
  /\ \E subscriber \in ListedSubscribers :
       LET notionPage ==
             IF Truthy(subscriber.email)
             THEN findNotionPageByEmail(reverse.notionPages,
                                        subscriber.email[1])
             ELSE None
           r == [reverse EXCEPT !.subscriber = subscriber,
                                !.notionPage = notionPage]
       IN reverse' =
            IF ~Truthy(subscriber.email)
            THEN [r EXCEPT !.pc = "counted", !.outcome = "noEmail",
                           !.skippedCount = @ + 1]
            ELSE IF notionPage = None
            THEN [r EXCEPT !.pc = "counted", !.outcome = "notFound",
                           !.notFoundCount = @ + 1]
            ELSE IF needsUpdate(notionPage[1], subscriber)
            THEN [r EXCEPT !.pc = "update"]
            ELSE [r EXCEPT !.pc = "counted", !.outcome = "noChanges",
                           !.skippedCount = @ + 1]
  /\ UNCHANGED << forward, exitCode >>

\* await updateNotionPage(notionPage.id, subscriber) inside its try: the
\* update is sent when `updates` has a property; it succeeds, or it throws
\* and the catch clause logs the failure; updatedCount++ follows every call
\* that did not throw
UpdateNotionPage ==
  /\ reverse.pc = "update"
  /\ LET updates == updateNotionPageUpdates(reverse.subscriber)
     IN IF updates # NoUpdates
        THEN \/ reverse' = [reverse EXCEPT !.pc = "counted",
                                           !.updates = Some(updates),
                                           !.outcome = "updated",
                                           !.updatedCount = @ + 1]
             \/ reverse' = [reverse EXCEPT !.pc = "counted",
                                           !.updates = Some(updates),
                                           !.outcome = "failed"]
        ELSE reverse' = [reverse EXCEPT !.pc = "counted",
                                        !.outcome = "nothingToUpdate",
                                        !.updatedCount = @ + 1]
  /\ UNCHANGED << forward, exitCode >>

\* the for statement takes the next subscriber
NextIteration ==
  /\ reverse.pc = "counted"
  /\ reverse' = [reverse EXCEPT !.pc = "loop", !.idx = @ + 1,
                                !.subscriber = NoListed,
                                !.notionPage = None, !.updates = None,
                                !.outcome = ""]
  /\ UNCHANGED << forward, exitCode >>

\* the loop is over: the summary is printed and main() returns
ReverseSummary ==
  /\ reverse.pc = "loop"
  /\ reverse.idx = reverse.n
  /\ reverse' = [reverse EXCEPT !.pc = "done"]
  /\ exitCode' = ExitNormally
  /\ UNCHANGED forward

NextReverse ==
  \/ FetchBoth
  \/ NextSubscriber
  \/ UpdateNotionPage
  \/ NextIteration
  \/ ReverseSummary

SpecReverse == InitReverse /\ [][NextReverse]_vars

\* ------------------------------------------------------------------------
\* Properties of the Ecomail-to-Notion script
\* ------------------------------------------------------------------------

\* the script has a subscriber in hand whose page it has found
PageFound == reverse.notionPage # None

\* the checkbox of that page is ticked
PageChecked ==
  PageFound /\ reverse.notionPage[1].Subcribe = Some(TRUE)

\* the subscriber in hand is subscribed: its status is the code 1 or the
\* mnemonic SUBSCRIBED
TargetIsSubscribed ==
  Normalized(reverse.subscriber.status) = Num(SUBSCRIBED)

\* an update of the page has been sent
UpdateIssued == reverse.updates # None

\* C28: the script writes only the subscription checkbox of a page: an
\* update it sends holds the checkbox property and nothing else (no tags,
\* name, surname or company), and it sends one only when the checkbox of
\* the page differs from whether the subscriber is subscribed
C28_ReverseWritesOnlyCheckbox ==
  UpdateIssued =>
    /\ DOMAIN reverse.updates[1] = { "Subcribe" }
    /\ DOMAIN reverse.updates[1].Subcribe = { "checkbox" }
    /\ PageChecked # TargetIsSubscribed

\* the status of the subscriber in hand is one of the two the script acts
\* on, spelled as a code or as a mnemonic
SubscribedOrNot ==
  reverse.subscriber.status \in
    { Num(SUBSCRIBED), Str("SUBSCRIBED"),
      Num(UNSUBSCRIBED), Str("UNSUBSCRIBED") }

\* C29: the script reads the status of a subscriber through the
\* normalisation of the forward script: code 1 and SUBSCRIBED both count as
\* subscribed, code 2 and UNSUBSCRIBED as not subscribed, when it decides
\* whether a page needs an update and when it sets the checkbox
C29_ReverseUsesNormalization ==
  PageFound /\ SubscribedOrNot =>
    /\ reverse.outcome = "noChanges" => PageChecked = TargetIsSubscribed
    /\ reverse.pc = "update" => PageChecked # TargetIsSubscribed
    /\ UpdateIssued =>
         reverse.updates[1].Subcribe.checkbox = TargetIsSubscribed

\* ------------------------------------------------------------------------
\* The two spellings of a status in the forward script
\* ------------------------------------------------------------------------

\* the lookup has delivered a subscriber whose status is one of the five
\* mnemonic strings
MnemonicFetched ==
  /\ LookupAnswered
  /\ ~TargetAbsent
  /\ Fetched.status.t = "string"
  /\ \E m \in Mnemonics : m[1] = Fetched.status.s

\* the subscriber the lookup delivered, with its status spelled as the
\* numeric code
NumericTwin ==
  [Fetched EXCEPT
     !.status = Num((CHOOSE m \in Mnemonics : m[1] = Fetched.status.s)[2])]

\* C30: for each of the five known statuses the forward script does for a
\* subscriber whose status comes as the mnemonic string what it does for
\* the same subscriber with the status as the numeric code, whatever the
\* intent, the tags and the text fields of the contact: it skips the same
\* way, or calls the same operation with the same request
C30_SameActionForBothSpellings ==
  MnemonicFetched =>
    LET d == Decide(extractContactData(page.properties), Some(NumericTwin))
    IN /\ d \in Skips => outcome = d /\ calls = << "lookup" >>
       /\ d \notin Skips => calls = << "lookup", d >>
       /\ d = "subscribe" => request = addToEcomailRequest(contact)
       /\ d = "update" => request = updateUnsubscribedContactRequest(contact)
       /\ d = "unsubscribe" =>
            request = unsubscribeFromEcomailRequest(contact.email)

\* an opted-in contact whose subscriber has the status 'SUBSCRIBED' and the
\* same tags has been skipped as unchanged
C30_Witness ==
  /\ MnemonicFetched
  /\ Fetched.status = Str("SUBSCRIBED")
  /\ Intent = "OptIn"
  /\ pc = "continue"
  /\ outcome = "skipNoChanges"
  /\ contact.tags = << "b", "a" >>

\* ------------------------------------------------------------------------
\* needsEcomailUpdate on lists of tags
\* ------------------------------------------------------------------------

\* the longest list of tags
MaxTags == 3

TagNames == { "a", "b", "c" }

\* the lists of at most MaxTags tags
TagLists == UNION { [1..k -> TagNames] : k \in 0..MaxTags }

\* a contact without text fields is about to be compared with a subscriber
\* without text fields; the subscriber may have no tags field
InitCompare ==
  /\ pc = "compare"
  /\ \E t \in TagLists : contact = [NoContact EXCEPT !.tags = t]
  /\ \E t \in { None } \cup { Some(l) : l \in TagLists } :
       ecomailSubscriber = Some([NoSubscriber EXCEPT !.tags = t])
  /\ outcome = ""
  /\ env = [NOTION_TOKEN |-> Some("x"), NOTION_DATABASE_ID |-> Some("x"),
            ECOMAIL_API_KEY |-> Some("x"), ECOMAIL_LIST_ID |-> Some("x")]
  /\ notion = "client"
  /\ query = NoQuery
  /\ ecomailStatus = NullStatus
  /\ reverse = NoReverse
  /\ nPages = 0
  /\ idx = 0
  /\ page = NoPage
  /\ successCount = 0
  /\ errorCount = 0
  /\ skippedCount = 0
  /\ unsubscribedCount = 0
  /\ fw = NoCall
  /\ request = NoRequest
  /\ result = NoResult
  /\ lookupResult = NoResult
  /\ calls = << >>
  /\ attempts = 0
  /\ entry = << 0, 0, 0, 0 >>
  /\ exitCode = -1

\* one call of needsEcomailUpdate(contact, ecomailSubscriber)
Compare ==
  /\ pc = "compare"
  /\ pc' = "compared"
  /\ outcome' = IF needsEcomailUpdate(contact, ecomailSubscriber)
                THEN "true" ELSE "false"
  /\ contact' =
       needsEcomailUpdateLeaves(contact, ecomailSubscriber).notionContact
  /\ ecomailSubscriber' =
       needsEcomailUpdateLeaves(contact, ecomailSubscriber).ecomailSubscriber
  /\ UNCHANGED << nPages, idx, page, counters, fw, request, result,
                  lookupResult, calls, attempts, entry, exitCode, env,
                  notion, query, ecomailStatus, reverse >>

NextCompare == Compare

SpecCompare == InitCompare /\ [][NextCompare]_vars

\* the tags of the subscriber, a subscriber without a tags field having none
TargetTagList ==
  IF ecomailSubscriber[1].tags = None THEN << >>
  ELSE ecomailSubscriber[1].tags[1]

\* the two lists hold every tag the same number of times
SameMultiset(l1, l2) ==
  \A t \in TagNames : Occurrences(t, l1) = Occurrences(t, l2)

\* the lists that hold the elements of the list in some order
Reorderings(list) == { l \in TagLists : SameMultiset(l, list) }

\* C31: the comparison of the tags is equality of multisets: for a contact
\* and a subscriber that differ in nothing else, needsEcomailUpdate answers
\* true exactly when some tag occurs a different number of times in the two
\* lists, a subscriber without a tags field counting as one with no tags;
\* and the answer is the same for every reordering of either list
C31_TagsComparedAsMultisets ==
  pc = "compared" =>
    /\ outcome = "true" <=> ~SameMultiset(contact.tags, TargetTagList)
    /\ \A l1 \in Reorderings(contact.tags) :
         \A l2 \in Reorderings(TargetTagList) :
           needsEcomailUpdate(
             [contact EXCEPT !.tags = l1],
             Some([ecomailSubscriber[1] EXCEPT !.tags = Some(l2)]))
           <=> outcome = "true"

\* two lists of three tags, one a reordering of the other with a tag twice,
\* have been compared and found equal
C31_Witness ==
  /\ pc = "compared"
  /\ contact.tags = << "b", "a", "b" >>
  /\ TargetTagList = << "b", "b", "a" >>
  /\ outcome = "false"

\* ------------------------------------------------------------------------
\* Properties of the counters and of the calls of one contact
\* ------------------------------------------------------------------------

\* the run has listed the source and has come to its end
RunEnded == pc \in { "done", "fatal" } /\ notion = "client" /\ ~query.hasMore

\* C32: every contact raises exactly one of the four counters by one, on
\* every path through the loop body, exceptions included; so at the end of
\* a run that has listed the source the four counters add up to the number
\* of contacts listed
C32_EveryContactCountedOnce ==
  /\ BodyEnded => \E which \in 1..4 : counters = Bumped(which)
  /\ RunEnded => Counted = nPages

\* a call of fetchWithRetry is running
InCall == pc \in { "fetch", "backoff" }

\* the number of steps the call can still take: two for each pass that is
\* left, one less when the pass has been made and its backoff is running
Remaining ==
  IF pc = "fetch" THEN 2 * (maxRetries - fw.attempt)
  ELSE IF pc = "backoff" THEN 2 * (maxRetries - fw.attempt) - 1
  ELSE 0

\* C33: whatever mix of 429 answers and transport failures a call of
\* fetchWithRetry meets, it sends at most maxRetries requests, every pass
\* counting against the one budget whichever backoff follows it; and the
\* call ends: while it runs it can always take a step, and every step
\* brings it nearer to its return
C33_AttemptsBoundedAndCallEnds ==
  /\ [](/\ attempts <= maxRetries
        /\ InCall \/ Returned => Len(fw.received) = attempts
        /\ InCall => Remaining > 0 /\ ENABLED (Attempt \/ Backoff))
  /\ [][InCall => Returned' \/ (InCall' /\ Remaining' < Remaining)]_vars

\* a call has met a 429 answer, a transport failure and a 429 answer again,
\* and has ended after the third
C33_Witness ==
  /\ Returned
  /\ fw.received = << "429", "error", "429" >>
  /\ attempts = maxRetries
  /\ result = Undefined

\* the operations that change the target
Mutations == { "subscribe", "update", "unsubscribe" }

\* the lookup has ended without an answer: fetchWithRetry threw, or ran out
\* of passes
LookupWithoutAnswer == lookupResult.kind \in { "error", "undefined" }

\* C34: for one contact the run makes at most one lookup call and at most
\* one mutation call, the lookup first; a mutation call is made only after
\* the lookup has been answered with 404 or with a 2xx subscriber record,
\* never after a lookup that raised an error or used up its passes
C34_OneLookupThenOneMutation ==
  /\ \/ calls = << >>
     \/ calls = << "lookup" >>
     \/ \E m \in Mutations : calls = << "lookup", m >>
  /\ Len(calls) = 2 => LookupAnswered
  /\ LookupWithoutAnswer => calls = << "lookup" >> /\ pc = "pace"
  /\ InCall /\ fw.op \in Mutations => Len(calls) = 2 /\ calls[2] = fw.op
  /\ InCall /\ fw.op = "lookup" => calls = << "lookup" >>

\* the lookup was answered with 404 and the upsert of the contact has
\* returned
C34_Witness ==
  /\ pc = "mutated"
  /\ calls = << "lookup", "subscribe" >>
  /\ lookupResult.kind = "response"
  /\ lookupResult.status = 404

\* ------------------------------------------------------------------------
\* The fixed point of successive runs
\* ------------------------------------------------------------------------

\* the page differs from the stored subscriber in its tags or in a text
\* field it fills in
StoredDiffers ==
  LET src == page.properties
      sub == ecomailSubscriber[1]
      tgt == IF sub.tags = None THEN << >> ELSE sub.tags[1]
  IN \/ \E t \in { "a", "b" } : Occurrences(t, src.tags) # Occurrences(t, tgt)
     \/ Truthy(src.name) /\ src.name # sub.name
     \/ Truthy(src.surname) /\ src.surname # sub.surname
     \/ Truthy(src.company) /\ src.company # sub.company

\* C35: with the page unchanged and a target that stores every mutation,
\* the runs send at most two mutations for a contact before they skip it:
\* at most the one upsert for OptIn, and for OptOut at most an unsubscribe,
\* which carries the email and the status only, followed by at most one
\* keep-unsubscribed update, sent only when the tags or a filled-in text
\* field still differ from what is stored
C35_FixedPointWithinTwoMutations ==
  /\ Len(calls) <= 2
  /\ Intent = "OptIn" => calls \in { << >>, << "subscribe" >> }
  /\ Intent = "OptOut" =>
       calls \in { << >>, << "unsubscribe" >>, << "update" >>,
                   << "unsubscribe", "update" >> }
  /\ pc = "mutated" /\ LastSent = "unsubscribe" =>
       request = [NoRequest EXCEPT !.method = "PUT",
                                   !.endpoint = "update-subscriber",
                                   !.email = page.properties.email,
                                   !.status = 2]
  /\ pc = "mutated" /\ LastSent = "update" => StoredDiffers
  /\ pc = "pace" /\ calls # << >> =>
       /\ outcome = "skipAlready"
       /\ TargetUnsubscribed
       /\ ~StoredDiffers
  /\ pc = "continue" /\ calls # << >> =>
       /\ outcome = "skipNoChanges"
       /\ ~StoredDiffers

\* an opted-out contact has been unsubscribed, then updated because its
\* tags differed, and the third run has skipped it
C35_Witness ==
  /\ Intent = "OptOut"
  /\ calls = << "unsubscribe", "update" >>
  /\ pc = "pace"
  /\ outcome = "skipAlready"

\* ------------------------------------------------------------------------
\* Opted-out contacts whose subscriber was found
\* ------------------------------------------------------------------------

\* the lookup has delivered a subscriber record with a 2xx answer
RecordFetched == LookupAnswered /\ ~TargetAbsent

\* the iteration has ended with the contact skipped and nothing sent
SkippedWithoutMutation ==
  BodyEnded /\ calls = << "lookup" >> /\ counters = Bumped(3)

\* C36: an opted-out contact is skipped as absent from the target only when
\* the lookup was answered with 404: when the lookup delivered a subscriber
\* record, the contact is skipped without a mutation only if the status of
\* the record is Unsubscribed (code 2 or the mnemonic) and neither the tags
\* nor a filled-in text field differ; a record without a status is not
\* taken for an absent subscriber
C36_OptOutSkipNeedsUnsubscribedRecord ==
  Intent = "OptOut" /\ RecordFetched /\ SkippedWithoutMutation =>
    /\ Fetched.status \in { Num(2), Str("UNSUBSCRIBED") }
    /\ ~AttributeDiff

\* ------------------------------------------------------------------------
\* The counter of updated pages in the Ecomail-to-Notion script
\* ------------------------------------------------------------------------

\* C37: the script counts a subscriber as updated only when it has sent an
\* update of the page and the update has succeeded: the counter of updated
\* pages goes up by one at a time, and only in a step that leaves an update
\* sent and answered without an error; a subscriber for which nothing is
\* written, such as one without a status, is not counted as updated
C37_UpdatedCountsIssuedUpdates ==
  [][reverse'.updatedCount # reverse.updatedCount =>
       /\ reverse'.updatedCount = reverse.updatedCount + 1
       /\ reverse'.updates # None
       /\ reverse'.outcome = "updated"]_vars

====
